---- MODULE Spec2Model ----
(***************************************************************************)
(* Connection-lifecycle core of yog4a/pgsql.                               *)
(*                                                                         *)
(*   Gate        src/src/extensions/pool.class.ts (class Gate)             *)
(*   CorePool    src/src/core/pool.core.ts                                 *)
(*   CoreClient  src/dist/index.cjs (class CoreClient)                     *)
(*                                                                         *)
(* JavaScript runs one callback at a time; a step of the model is the      *)
(* synchronous code between two suspension points (await, timer, driver    *)
(* event).                                                                 *)
(***************************************************************************)
EXTENDS Integers, FiniteSets, Sequences, TLC

(***************************************************************************)
(* Bounds of the model.                                                    *)
(***************************************************************************)
\* concurrent callers of the gate (a finished slot is reused)
MaxCalls == 2
\* of these, concurrent callers of getClient() (a finished slot is reused)
MaxClients == 1
\* driver handles that exist at the same time (ended ones are recycled)
MaxHandles == 2

\* concurrent calls of queryWithRetry()/transactionWithRetry() on one executor
MaxRequests == 2
\* statements of a transaction batch
MaxStatements == 2
\* largest options.maxAttempts, in halves (4 = 2.0)
MaxOptionHalves == 4
\* largest finite timeoutMs passed to shutdown(), in seconds
MaxTimeout == 1
\* `timeoutMs: number = 30_000` of shutdown(), in seconds
DefaultTimeout == 30
MaxListens == 2
MaxUnlistens == 1
MaxReconnects == 1
MaxShutdowns == 2
MaxAttempt == 5
RandomParts == 4
MaxRows == 2
MaxLatency == 3
TickMs == 5000

Calls == 1 .. MaxCalls

\* values of the timeoutMs of shutdown(): a number of whole seconds, or one of
\* the numbers that are not finite
Seconds(s) == [kind |-> "number", s |-> s]
Infinity == [kind |-> "Infinity", s |-> 0]
NaN == [kind |-> "NaN", s |-> 0]
Timeouts == {Seconds(s) : s \in 0 .. MaxTimeout} \cup {Infinity, NaN}
Requests == 1 .. MaxRequests
Clients == 1 .. MaxClients
Handles == 1 .. MaxHandles
\* promise identities: one more than the callers that can hold one
Pids == 1 .. (MaxCalls + 1)

\* reasons a caller of close(reason) may pass
ReasonA == "reasonA"
ReasonB == "reasonB"
Reasons == {ReasonA, ReasonB}
NoReason == "none"

\* errors thrown by the supervisors
ErrShuttingDown == "shutting down"
ErrDisconnected == "disconnected"
ErrNotInitialized == "not initialized"
ErrCheckout == "checkout failed"

VARIABLES
    \* ---- Gate fields
    _isOpen,            \* Gate._isOpen
    _waiters,           \* Gate._waiters
    _pendingPromise,    \* Gate._pendingPromise: 0 = null, else a promise id
    _pendingResolve,    \* Gate._pendingResolve: 0 = null, else the promise it resolves
    _pendingReject,     \* Gate._pendingReject: 0 = null, else the promise it rejects
    promises,           \* per promise id: "free", "pending", "resolved", "rejected" (+ reason)
    tickets,            \* per caller: the promise enterOrWait() returned to it
    lastGate,           \* the last direct Gate call, its argument and its return value
    \* ---- supervisor fields (CorePool / CoreClient)
    variant,            \* "pool" (CorePool) or "client" (CoreClient)
    _isReconnecting,
    _isDestroying,
    _isShuttingDown,
    _handle,            \* CorePool._pool / CoreClient._client: 0 = null
    hstate,             \* per driver handle: "free", "live", "dead", "ending", "ended"
    hlisten,            \* per driver handle: supervisor listeners attached
    ipc,                \* position of initialize()
    rpc,                \* position of the reconnect() loop
    rprobe,             \* handle probed by initialize()/reconnect() (0 = none)
    iprobe,
    dpc,                \* position of disconnect()
    destroyer,          \* who awaits end() inside destroyPool/destroyClient
    vprobes,            \* handles with a verifyOrReconnect probe in flight
    gpc,                \* per caller: position of getClient()
    gco,                \* per caller: pool whose connect() the caller awaits (0 = none)
    gres,               \* per caller: outcome of getClient(): the error thrown, or the
                        \* standing of the handle returned at the moment it is returned
    lastEvent,          \* last lifecycle event emitted through ConnectionEvents
    opens,              \* closed->open transitions of the gate since the supervisor last
                        \* observed a failure (reconnect() started) or a shutdown
    crashed,            \* an exception or rejection nobody handles ended the host
    \* ---- executor (queryModule / transactionModule closure)
    xkind,              \* "query" (queryModule) or "transaction" (transactionModule)
    xpooled,            \* the clients getClient() yields have release() (pool supervisor)
    maxAttemptsOption,  \* options.maxAttempts, in halves (3 = 1.5); -1 = undefined
    batch,              \* number of statements of the `queries` argument
    activeRequests,
    isShuttingDown,
    xpc,                \* per request: position of queryWithRetry/transactionWithRetry
    attempt,            \* per request: `attempt` of the for loop
    client,             \* per request: `client` of the attempt: 0 = null, else the
                        \* client that the getClient() of attempt k yielded
    inTransaction,      \* per request
    issued,             \* per request: statements passed to client.query() on the
                        \* client of the attempt, until the call settles
    results,            \* per request: `results` of the attempt
    lastError,          \* per request: `lastError`, the `err` of the last catch block run
    outcome,            \* per request: what the call returned or threw
    held,               \* per request: pool clients obtained less release() calls
    reported,           \* per request: what the attempt in progress passed to
                        \* options.onError
    spc,                \* position of shutdown()
    timeoutMs,          \* argument of shutdown(), a value of Timeouts
    elapsed,            \* Date.now() - startTime at the last test, a position
    \* NotificationClient
    channels,           \* `channels`: per channel the events object mapped to it,
                        \* named by the listen() call that passed it, 0 = no mapping
    notifShuttingDown,  \* `isShuttingDown` of NotificationClient
    notifCleared,       \* disconnect() of NotificationClient has run channels.clear()
    lpc,                \* per listen() call: its position
    lchannel,           \* per listen() call: its `channel`
    lresult,            \* per listen() call: how it settled
    upc,                \* per unlisten() call: its position
    uchannel,           \* per unlisten() call: its `channel`
    uevents,            \* per unlisten() call: its `events`
    udisconnects,       \* per unlisten() call: its calls of events.onDisconnect()
    entries,            \* the entries of `channels` in insertion order, as a Map
                        \* keeps them: a deleted entry leaves an empty slot
    hpc,                \* per handleReconnect() call: its position
    hidx,               \* per handleReconnect() call: the slot its iterator is at
    hcur,               \* per handleReconnect() call: `[channel, events]` of the turn
    hstart,             \* per handleReconnect() call: the mappings of successful
                        \* listen() calls at the time of the `reconnect` event
    hwaiting,           \* per handleReconnect() call: the listen() calls that were
                        \* awaiting getClient() at the time of the `reconnect` event
    hissued,            \* per handleReconnect() call: channels it issued LISTEN for
    hconnected,         \* per handleReconnect() call: events objects whose
                        \* onConnect() it called
    herrored,           \* per handleReconnect() call: events objects whose
                        \* onError() it called
    notified,           \* the last `notification` event handled: its channel and
                        \* payload, the arguments of the onData() calls and the
                        \* number of onError() calls of handleNotification()
    poolpc,             \* Pool.shutdown(): its position
    poolRan,            \* Pool.shutdown(): the steps it has called, in order
    clientpc,           \* per Client.shutdown() call: its position
    clientShuttingDown, \* Client.isShuttingDown
    shutdownErrors,     \* per Client.shutdown() call: the length of shutdownErrors
    retriable,           \* isRetriableError(err): its argument, and its result
                        \* once it has returned
    slept,               \* waitWithBackoff(attempt, options): its arguments, the value of
                        \* Math.random() and the delay it sleeps
    test,                \* testConnection(instance): the call, its timer and its clock
    notifShutdowns,      \* per shutdown() call of NotificationClient: its position and
                        \* the length of its shutdownErrors
    transactionModule   \* the transactionModule closure of a Pool facade: its
                        \* isShuttingDown and its activeRequests

gateVars == <<_isOpen, _waiters, _pendingPromise, _pendingResolve, _pendingReject,
              promises, tickets, lastGate>>
supVars == <<variant, _isReconnecting, _isDestroying, _isShuttingDown, _handle,
             hstate, hlisten, ipc, rpc, rprobe, iprobe, dpc, destroyer,
             vprobes, gpc, gco, gres, lastEvent, opens, crashed>>
execVars == <<xkind, xpooled, maxAttemptsOption, batch, activeRequests,
              isShuttingDown, xpc, attempt, client, inTransaction, issued, results,
              lastError, outcome, held, reported, spc, timeoutMs, elapsed>>
handlerVars == <<hpc, hidx, hcur, hstart, hwaiting, hissued, hconnected, herrored>>
notifOwnVars == <<channels, notifShuttingDown, notifCleared, lpc, lchannel, lresult,
                  upc, uchannel, uevents, udisconnects, entries>>
poolVars == <<poolpc, poolRan>>
clientVars == <<clientpc, clientShuttingDown, shutdownErrors>>
auxVars == <<notified, poolVars, clientVars, retriable, slept, test, notifShutdowns, transactionModule>>
\* what the handlers of one component leave alone
auxButNotified == <<poolVars, clientVars, retriable, slept, test, notifShutdowns, transactionModule>>
auxButPool == <<notified, clientVars, retriable, slept, test, notifShutdowns, transactionModule>>
auxButClient == <<notified, poolVars, retriable, slept, test, notifShutdowns, transactionModule>>
auxButRetriable == <<notified, poolVars, clientVars, slept, test, notifShutdowns, transactionModule>>
auxButSlept == <<notified, poolVars, clientVars, retriable, test, notifShutdowns, transactionModule>>
auxButTest == <<notified, poolVars, clientVars, retriable, slept, notifShutdowns, transactionModule>>
auxButNotifShutdowns == <<notified, poolVars, clientVars, retriable, slept, test, transactionModule>>
auxButTransactionModule == <<notified, poolVars, clientVars, retriable, slept, test, notifShutdowns>>
\* what Pool.shutdown() leaves alone when it calls transactionModule.shutdown()
auxButPoolAndTransactionModule == <<notified, clientVars, retriable, slept, test,
                                    notifShutdowns>>
notifVars == <<channels, notifShuttingDown, notifCleared, lpc, lchannel, lresult,
               upc, uchannel, uevents, udisconnects, entries, handlerVars, auxVars>>
vars == <<gateVars, supVars, execVars, notifVars>>

NoError == [src |-> "none", code |-> "none"]
NoOutcome == [kind |-> "none", err |-> NoError, rows |-> << >>]

\* no executor was created and none is called
ExecutorAbsent ==
    /\ xkind = "query"
    /\ xpooled = FALSE
    /\ maxAttemptsOption = -1
    /\ batch = 0
    /\ activeRequests = 0
    /\ isShuttingDown = FALSE
    /\ xpc = << >>
    /\ attempt = << >>
    /\ client = << >>
    /\ inTransaction = << >>
    /\ issued = << >>
    /\ results = << >>
    /\ lastError = << >>
    /\ outcome = << >>
    /\ held = << >>
    /\ reported = << >>
    /\ spc = "idle"
    /\ timeoutMs = Seconds(0)
    /\ elapsed = 0

\* calls of listen() and unlisten(), in order of arrival, and channel names
Listens == 1 .. MaxListens
Unlistens == 1 .. MaxUnlistens
Reconnects == 1 .. MaxReconnects
Shutdowns == 1 .. MaxShutdowns
NoTurn == [channel |-> "none", events |-> 0]
Channels == {"orders", "audit"}

\* a NotificationClient without channels and without calls
\* nothing was handled yet
NoNotification == [channel |-> "none", payload |-> << >>, defined |-> FALSE,
                   events |-> 0, onData |-> << >>, threw |-> FALSE,
                   onError |-> 0, onErrorOf |-> {}]

\* a value that is no object, as an argument of isRetriableError()
NotAnError(type) == [type |-> type, codeType |-> "undefined", code |-> "", message |-> ""]

\* isRetriableError() was not called yet
NotClassified == [called |-> FALSE, err |-> NotAnError("undefined"), ret |-> FALSE]

\* waitWithBackoff() was not called yet
NotSlept == [called |-> FALSE, build |-> "src", attempt |-> 0, maxDelayMs |-> 0,
             maxJitterMs |-> 0, backoff |-> 0, delay |-> 0]

\* testConnection() was not called yet
NotTested == [pc |-> "idle", answer |-> [kind |-> "none", rows |-> 0, code |-> "none"],
              latency |-> 0, clock |-> 0, timer |-> "none", cleared |-> FALSE,
              queryPending |-> FALSE, winner |-> "none", outcome |-> "none"]

AuxInit ==
    /\ notified = NoNotification
    /\ poolpc = "idle"
    /\ poolRan = << >>
    /\ clientpc = [c \in Shutdowns |-> "idle"]
    /\ clientShuttingDown = FALSE
    /\ shutdownErrors = [c \in Shutdowns |-> 0]
    /\ retriable = NotClassified
    /\ slept = NotSlept
    /\ test = NotTested
    /\ notifShutdowns = [s \in Shutdowns |-> [pc |-> "idle", errors |-> 0]]
    /\ transactionModule = [isShuttingDown |-> FALSE, activeRequests |-> 0]

NotificationInit ==
    /\ channels = [c \in Channels |-> 0]
    /\ notifShuttingDown = FALSE
    /\ notifCleared = FALSE
    /\ lpc = [l \in Listens |-> "idle"]
    /\ lchannel = [l \in Listens |-> "none"]
    /\ lresult = [l \in Listens |-> "none"]
    /\ upc = [u \in Unlistens |-> "idle"]
    /\ uchannel = [u \in Unlistens |-> "none"]
    /\ uevents = [u \in Unlistens |-> 0]
    /\ udisconnects = [u \in Unlistens |-> 0]
    /\ entries = << >>
    /\ hpc = [k \in Reconnects |-> "idle"]
    /\ hidx = [k \in Reconnects |-> 0]
    /\ hcur = [k \in Reconnects |-> NoTurn]
    /\ hstart = [k \in Reconnects |-> [c \in Channels |-> 0]]
    /\ hwaiting = [k \in Reconnects |-> {}]
    /\ hissued = [k \in Reconnects |-> {}]
    /\ hconnected = [k \in Reconnects |-> {}]
    /\ herrored = [k \in Reconnects |-> {}]
    /\ AuxInit

\* no NotificationClient was created and none is called
NotificationAbsent ==
    /\ channels = << >>
    /\ notifShuttingDown = FALSE
    /\ notifCleared = FALSE
    /\ lpc = << >>
    /\ lchannel = << >>
    /\ lresult = << >>
    /\ upc = << >>
    /\ uchannel = << >>
    /\ uevents = << >>
    /\ udisconnects = << >>
    /\ entries = << >>
    /\ hpc = << >>
    /\ hidx = << >>
    /\ hcur = << >>
    /\ hstart = << >>
    /\ hwaiting = << >>
    /\ hissued = << >>
    /\ hconnected = << >>
    /\ herrored = << >>
    /\ AuxInit

(***************************************************************************)
(* Gate, as a value.  The operations below are the methods of class Gate;  *)
(* each takes the gate (with the promises it created and the tickets its   *)
(* callers hold) and returns it, with the method's return value in ret.    *)
(***************************************************************************)
NoResult == [kind |-> "none", val |-> "none"]
NoTicket == [held |-> FALSE, pid |-> 0]
FreePromise == [st |-> "free", reason |-> NoReason]

GateNow ==
    [isOpen |-> _isOpen, waiters |-> _waiters, pendingPromise |-> _pendingPromise,
     pendingResolve |-> _pendingResolve, pendingReject |-> _pendingReject,
     promises |-> promises, tickets |-> tickets, ret |-> 0]

\* the promise executor's resolve() of promise p: settles it unless already settled
resolvePromise(ps, p) ==
    IF p # 0 /\ ps[p].st = "pending"
    THEN [ps EXCEPT ![p] = [st |-> "resolved", reason |-> NoReason]]
    ELSE ps

\* the promise executor's reject(reason) of promise p
rejectPromise(ps, p, reason) ==
    IF p # 0 /\ ps[p].st = "pending"
    THEN [ps EXCEPT ![p] = [st |-> "rejected", reason |-> reason]]
    ELSE ps

resetPromise(g) ==
    [g EXCEPT !.pendingPromise = 0, !.pendingResolve = 0, !.pendingReject = 0,
              !.waiters = 0]

\* open() that forgets resetPromise(): the waiter count and the promise survive
open_withoutReset(g) ==
    IF g.isOpen
    THEN [g EXCEPT !.ret = 0]
    ELSE [g EXCEPT !.isOpen = TRUE,
                   !.promises = resolvePromise(g.promises, g.pendingResolve),
                   !.ret = g.waiters]

open(g) ==
    IF g.isOpen
    THEN [g EXCEPT !.ret = 0]
    ELSE LET released == g.waiters
             resolver == g.pendingResolve
             g1 == resetPromise([g EXCEPT !.isOpen = TRUE])
         IN  [g1 EXCEPT !.promises = resolvePromise(g1.promises, resolver),
                        !.ret = released]

\* close(reason) that rejects but forgets resetPromise(): the settled promise stays
\* the shared one
close_withoutReset(g, reason) ==
    IF ~g.isOpen /\ g.pendingPromise = 0
    THEN [g EXCEPT !.ret = 0]
    ELSE LET g1 == [g EXCEPT !.isOpen = FALSE]
         IN  IF reason = NoReason
             THEN [g1 EXCEPT !.ret = g1.waiters]
             ELSE [g1 EXCEPT !.promises = rejectPromise(g1.promises, g1.pendingReject,
                                                        reason),
                             !.ret = g1.waiters]

\* close() that resets the shared promise also when no reason is given: the parked
\* waiters are dropped without being settled
close_silentReset(g, reason) ==
    IF ~g.isOpen /\ g.pendingPromise = 0
    THEN [g EXCEPT !.ret = 0]
    ELSE LET g1 == [g EXCEPT !.isOpen = FALSE]
             g2 == resetPromise(g1)
         IN  IF reason = NoReason
             THEN [g2 EXCEPT !.ret = g1.waiters]
             ELSE [g2 EXCEPT !.promises = rejectPromise(g2.promises, g1.pendingReject,
                                                        reason),
                             !.ret = g1.waiters]

\* close(reason); reason = NoReason is close() without an argument
close(g, reason) ==
    IF ~g.isOpen /\ g.pendingPromise = 0
    THEN [g EXCEPT !.ret = 0]
    ELSE LET g1 == [g EXCEPT !.isOpen = FALSE]
         IN  IF reason = NoReason
             THEN [g1 EXCEPT !.ret = g1.waiters]
             ELSE LET rejected == g1.waiters
                      reject == g1.pendingReject
                      g2 == resetPromise(g1)
                  IN  [g2 EXCEPT !.promises = rejectPromise(g2.promises, reject, reason),
                                 !.ret = rejected]

\* promise identities nobody refers to any more (garbage)
Unreferenced(g) ==
    {p \in Pids :
        /\ p \notin {g.pendingPromise, g.pendingResolve, g.pendingReject}
        /\ \A c \in Calls : ~(g.tickets[c].held /\ g.tickets[c].pid = p)}

\* new Promise(...): the least identity nobody refers to
newPromise(g) ==
    CHOOSE p \in Unreferenced(g) : \A q \in Unreferenced(g) : p <= q

\* enterOrWait() called by caller c; the ticket is the promise it returns
\* (pid 0 is the already resolved Promise.resolve())
enterOrWait(g, c) ==
    IF g.isOpen
    THEN [g EXCEPT !.tickets[c] = [held |-> TRUE, pid |-> 0]]
    ELSE LET g1 == IF g.pendingPromise = 0
                   THEN LET p == newPromise(g)
                        IN  [g EXCEPT !.pendingPromise = p, !.pendingResolve = p,
                                      !.pendingReject = p,
                                      !.promises[p] = [st |-> "pending",
                                                       reason |-> NoReason]]
                   ELSE g
         IN  [g1 EXCEPT !.waiters = g1.waiters + 1,
                        !.tickets[c] = [held |-> TRUE, pid |-> g1.pendingPromise]]

\* the caller's continuation consumed the settled promise
dropTicket(g, c) == [g EXCEPT !.tickets[c] = NoTicket]

\* state of the promise caller c awaits: "none", "parked", "resolved", "rejected"
TicketState(c) ==
    IF ~tickets[c].held THEN "none"
    ELSE IF tickets[c].pid = 0 THEN "resolved"
    ELSE IF promises[tickets[c].pid].st = "pending" THEN "parked"
    ELSE promises[tickets[c].pid].st

TicketReason(c) ==
    IF tickets[c].held /\ tickets[c].pid # 0
    THEN promises[tickets[c].pid].reason
    ELSE NoReason

Parked == {c \in Calls : TicketState(c) = "parked"}

\* promises nobody refers to are garbage; their identities become free again
collect(g) ==
    [p \in Pids |-> IF p \in Unreferenced(g) THEN FreePromise ELSE g.promises[p]]

\* writes a gate value back to the Gate fields
SetGate(g, op, reason) ==
    /\ _isOpen' = g.isOpen
    /\ _waiters' = g.waiters
    /\ _pendingPromise' = g.pendingPromise
    /\ _pendingResolve' = g.pendingResolve
    /\ _pendingReject' = g.pendingReject
    /\ promises' = collect(g)
    /\ tickets' = g.tickets
    /\ lastGate' = [op |-> op, reason |-> reason, ret |-> g.ret]
    /\ UNCHANGED <<execVars, notifVars>>

GateInit ==
    /\ _isOpen = FALSE
    /\ _waiters = 0
    /\ _pendingPromise = 0
    /\ _pendingResolve = 0
    /\ _pendingReject = 0
    /\ promises = [p \in Pids |-> FreePromise]
    /\ tickets = [c \in Calls |-> NoTicket]
    /\ lastGate = [op |-> "new", reason |-> NoReason, ret |-> 0]

(***************************************************************************)
(* The Gate driven directly: any sequence of open(), close(),              *)
(* close(reason) and enterOrWait() calls.  The supervisor does not run.    *)
(***************************************************************************)
SupervisorAbsent ==
    /\ variant = "pool"
    /\ _isReconnecting = FALSE
    /\ _isDestroying = FALSE
    /\ _isShuttingDown = FALSE
    /\ _handle = 0
    /\ hstate = [h \in Handles |-> "free"]
    /\ hlisten = [h \in Handles |-> FALSE]
    /\ ipc = "none"
    /\ rpc = "idle"
    /\ rprobe = 0
    /\ iprobe = 0
    /\ dpc = "idle"
    /\ destroyer = "none"
    /\ vprobes = {}
    /\ gpc = [c \in Clients |-> "idle"]
    /\ gco = [c \in Clients |-> 0]
    /\ gres = [c \in Clients |-> NoResult]
    /\ lastEvent = "none"
    /\ opens = 0
    /\ crashed = FALSE

GateOnlyInit == GateInit /\ SupervisorAbsent /\ ExecutorAbsent /\ NotificationAbsent

\* gate.open()
GOpen ==
    /\ SetGate(open(GateNow), "open", NoReason)
    /\ UNCHANGED supVars

\* gate.close()
GClose ==
    /\ SetGate(close(GateNow, NoReason), "close", NoReason)
    /\ UNCHANGED supVars

\* gate.close(reason)
GCloseReason(reason) ==
    /\ SetGate(close(GateNow, reason), "closeReason", reason)
    /\ UNCHANGED supVars

\* a caller without a ticket calls gate.enterOrWait()
GEnter(c) ==
    /\ ~tickets[c].held
    /\ SetGate(enterOrWait(GateNow, c), "enterOrWait", NoReason)
    /\ UNCHANGED supVars

\* the continuation of a caller whose promise settled runs; its slot is free again
GContinue(c) ==
    /\ TicketState(c) \in {"resolved", "rejected"}
    /\ SetGate(dropTicket(GateNow, c), "continue", NoReason)
    /\ UNCHANGED supVars

GateNext ==
    \/ GOpen
    \/ GClose
    \/ \E reason \in Reasons : GCloseReason(reason)
    \/ \E c \in Calls : GEnter(c)
    \/ \E c \in Calls : GContinue(c)

SpecGate == GateOnlyInit /\ [][GateNext]_vars

(***************************************************************************)
(* Gate claims                                                             *)
(***************************************************************************)

\* C1 (invariant I1): while the gate is open the waiter count is 0, no release
\* promise is pending and no caller is parked; whenever a caller is parked or counted
\* the gate is closed.
C1_GateOpenHasNoWaiters ==
    /\ _isOpen => (_waiters = 0 /\ _pendingPromise = 0 /\ Parked = {})
    /\ (Parked # {} \/ _waiters > 0) => ~_isOpen

\* open() has just released at least two parked callers
C1_Witness ==
    /\ _isOpen
    /\ lastGate.op = "open"
    /\ lastGate.ret >= 2
    /\ Cardinality({c \in Calls : TicketState(c) = "resolved" /\ tickets[c].pid # 0}) >= 2

\* C2: close(reason) fails every caller parked at that moment with exactly that
\* reason, settles nobody else, sets the waiter count to 0 and returns the number of
\* callers it failed; a caller that calls enterOrWait() on the closed gate afterwards
\* is parked on a pending promise (never handed the promise an earlier close failed)
\* and the call changes no other caller's promise.
C2_CloseReasonFailsParked ==
    [][ /\ \A reason \in Reasons : GCloseReason(reason) =>
              LET before == Parked
              IN  /\ \A c \in before :
                        /\ TicketState(c)' = "rejected"
                        /\ TicketReason(c)' = reason
                  /\ \A c \in Calls \ before :
                        /\ TicketState(c)' = TicketState(c)
                        /\ TicketReason(c)' = TicketReason(c)
                  /\ _waiters' = 0
                  /\ _pendingPromise' = 0
                  /\ ~_isOpen'
                  /\ lastGate'.ret = Cardinality(before)
        /\ \A c \in Calls : (GEnter(c) /\ ~_isOpen) =>
              /\ TicketState(c)' = "parked"
              /\ \A d \in Calls \ {c} :
                    /\ TicketState(d)' = TicketState(d)
                    /\ TicketReason(d)' = TicketReason(d)
      ]_vars

\* one caller was failed by close(ReasonA) and another, who came later, is parked
C2_Witness ==
    \E c, d \in Calls :
        /\ TicketState(c) = "rejected"
        /\ TicketReason(c) = ReasonA
        /\ TicketState(d) = "parked"
        /\ lastGate.op = "enterOrWait"
        /\ _waiters = 1

\* C3: close() without a reason settles no promise; a caller that arrives on the
\* closed gate is parked; open() releases every caller parked at that moment; a
\* caller already released stays released through every later close.
C3_SilentCloseKeepsWaiters ==
    [][ /\ GClose =>
              /\ tickets' = tickets
              /\ \A c \in Calls :
                    /\ TicketState(c)' = TicketState(c)
                    /\ TicketReason(c)' = TicketReason(c)
        /\ \A c \in Calls : (GEnter(c) /\ ~_isOpen) => c \in Parked'
        /\ GOpen => \A c \in Parked : TicketState(c)' = "resolved"
        /\ (GClose \/ \E reason \in Reasons : GCloseReason(reason)) =>
              \A c \in Calls :
                    TicketState(c) = "resolved" => TicketState(c)' = "resolved"
      ]_vars

\* close() has just run on a gate with parked callers, and they are still parked
C3_Witness ==
    /\ lastGate.op = "close"
    /\ lastGate.ret >= 1
    /\ Cardinality(Parked) = lastGate.ret
    /\ ~_isOpen

(***************************************************************************)
(* The supervisors: CorePool (src/src/core/pool.core.ts) and CoreClient    *)
(* (src/dist/index.cjs).  Both run the same state machine; variant tells   *)
(* them apart where the code differs.  The supervisor with its gate is     *)
(* handled as one value w; the operators below are the synchronous parts   *)
(* of the methods, the actions further down are the suspension points.     *)
(*                                                                         *)
(* Driver handles: "free" (no such object), "live" (created by new Pool /  *)
(* new Client), "broken" (connection lost, `end` not yet delivered),       *)
(* "dead" (`end` delivered), "ending" (end() called by the supervisor),    *)
(* "ended" (end() settled).  A probe or a checkout can only succeed on a   *)
(* live handle or on one whose end() has not settled yet.                  *)
(***************************************************************************)
Min(a, b) == IF a < b THEN a ELSE b

World ==
    [g |-> GateNow, variant |-> variant,
     isReconnecting |-> _isReconnecting, isDestroying |-> _isDestroying,
     isShuttingDown |-> _isShuttingDown, handle |-> _handle,
     hstate |-> hstate, hlisten |-> hlisten, ipc |-> ipc, rpc |-> rpc,
     rprobe |-> rprobe, iprobe |-> iprobe, dpc |-> dpc,
     destroyer |-> destroyer, vprobes |-> vprobes, gpc |-> gpc, gco |-> gco,
     gres |-> gres, lastEvent |-> lastEvent, opens |-> opens, crashed |-> crashed]

\* a handle something still refers to
Referenced(w, h) ==
    \/ h = w.handle
    \/ h = w.rprobe
    \/ h = w.iprobe
    \/ h \in w.vprobes
    \/ \E c \in Clients : w.gco[c] = h

\* identities a new driver object can take
FreeHandles(w) ==
    {h \in Handles : w.hstate[h] \in {"free", "ended"} /\ ~Referenced(w, h)}

newHandle(w) == CHOOSE h \in FreeHandles(w) : \A k \in FreeHandles(w) : h <= k

\* writes a supervisor value back to the fields of the supervisor and its gate
SetSupervisor(w) ==
    /\ _isOpen' = w.g.isOpen
    /\ _waiters' = w.g.waiters
    /\ _pendingPromise' = w.g.pendingPromise
    /\ _pendingResolve' = w.g.pendingResolve
    /\ _pendingReject' = w.g.pendingReject
    /\ promises' = collect(w.g)
    /\ tickets' = w.g.tickets
    /\ lastGate' = lastGate
    /\ variant' = w.variant
    /\ _isReconnecting' = w.isReconnecting
    /\ _isDestroying' = w.isDestroying
    /\ _isShuttingDown' = w.isShuttingDown
    /\ _handle' = w.handle
    /\ hstate' = [h \in Handles |->
                    IF w.hstate[h] = "ended" /\ ~Referenced(w, h)
                    THEN "free" ELSE w.hstate[h]]
    /\ hlisten' = w.hlisten
    /\ ipc' = w.ipc
    /\ rpc' = w.rpc
    /\ rprobe' = w.rprobe
    /\ iprobe' = w.iprobe
    /\ dpc' = w.dpc
    /\ destroyer' = w.destroyer
    /\ vprobes' = w.vprobes
    /\ gpc' = w.gpc
    /\ gco' = w.gco
    /\ gres' = w.gres
    /\ lastEvent' = w.lastEvent
    /\ opens' = w.opens
    /\ crashed' = w.crashed

\* a step of the supervisor: nothing else changes
SetWorld(w) == SetSupervisor(w) /\ UNCHANGED <<execVars, notifVars>>

\* this.connectionController.connection.open()
gateOpen(w) ==
    LET g == open(w.g)
    IN  [w EXCEPT !.g = g,
                  !.opens = IF ~w.g.isOpen /\ g.isOpen
                            THEN Min(w.opens + 1, 2) ELSE w.opens]

\* this.connectionController.connection.close(reason)
gateClose(w, reason) == [w EXCEPT !.g = close(w.g, reason)]

\* await this.connectionController.connection.enterOrWait() of caller c
gateEnter(w, c) == [w EXCEPT !.g = enterOrWait(w.g, c)]

\* destroyPool()/destroyClient() gets past its guard and calls end()
destroyStarts(w) == w.handle # 0 /\ ~w.isDestroying

\* destroyPool()/destroyClient() up to `await this._pool.end()`
destroyPool(w, who) ==
    IF ~destroyStarts(w)
    THEN w
    ELSE [w EXCEPT !.isDestroying = TRUE,
                   !.hlisten[w.handle] = FALSE,
                   !.hstate[w.handle] = "ending",
                   !.destroyer = who]

\* destroyPool()/destroyClient(): end() settled (resolved or rejected), finally block
destroyFinally(w) ==
    [w EXCEPT !.hstate = IF w.handle # 0
                         THEN [w.hstate EXCEPT ![w.handle] = "ended"]
                         ELSE w.hstate,
              !.handle = 0,
              !.isDestroying = FALSE,
              !.destroyer = "none"]

\* createPool()/createClient() up to its first suspension; thrown = TRUE when it
\* throws 'already initialized'
createThrows(w) == w.handle # 0

createPool(w) ==
    LET h == newHandle(w)
    IN  [w EXCEPT !.handle = h,
                  !.hstate[h] = "live",
                  !.hlisten[h] = TRUE]

\* a reconnect loop with an attempt limit of one: it gives up at the second turn
reconnectLoop_givesUp(w) ==
    IF w.isShuttingDown \/ w.rpc = "backoff"
    THEN [w EXCEPT !.isReconnecting = FALSE, !.rpc = "idle"]
    ELSE LET w1 == destroyPool(w, "reconnect")
         IN  [w1 EXCEPT !.rpc = IF destroyStarts(w) THEN "destroying" ELSE "destroyed"]

\* top of `while (!this._isShuttingDown)` in reconnect(), up to `await destroyPool()`
reconnectLoop(w) ==
    IF w.isShuttingDown
    THEN [w EXCEPT !.isReconnecting = FALSE, !.rpc = "idle"]
    ELSE LET w1 == destroyPool(w, "reconnect")
         IN  [w1 EXCEPT !.rpc = IF destroyStarts(w) THEN "destroying" ELSE "destroyed"]

\* a reconnect() that looks at _isShuttingDown only
reconnect_noSingleFlight(w) ==
    IF w.isShuttingDown
    THEN w
    ELSE LET w1 == gateClose([w EXCEPT !.isReconnecting = TRUE], NoReason)
             w2 == [w1 EXCEPT !.lastEvent = "disconnect:lost", !.opens = 0]
         IN  reconnectLoop(w2)

\* reconnect() up to its first suspension
reconnect(w) ==
    IF w.isReconnecting \/ w.isShuttingDown
    THEN w
    ELSE LET w1 == gateClose([w EXCEPT !.isReconnecting = TRUE], NoReason)
             w2 == [w1 EXCEPT !.lastEvent = "disconnect:lost", !.opens = 0]
         IN  reconnectLoop(w2)

\* a reconnect loop that forgets to open the gate after a successful probe
reconnectSucceeded_noOpen(w) ==
    [w EXCEPT !.lastEvent = "reconnect", !.isReconnecting = FALSE,
              !.rpc = "idle", !.rprobe = 0]

\* the reconnect loop after a successful verifyPool()/verifyClient()
reconnectSucceeded(w) ==
    LET w1 == gateOpen(w)
    IN  [w1 EXCEPT !.lastEvent = "reconnect", !.isReconnecting = FALSE,
                   !.rpc = "idle", !.rprobe = 0]

\* initialize() after a successful verifyPool()/verifyClient()
initializeSucceeded(w) ==
    LET w1 == gateOpen(w)
    IN  [w1 EXCEPT !.lastEvent = "connect", !.ipc = "done", !.iprobe = 0]

\* disconnect() that closes the gate without passing the reason
disconnect_silentClose(w) ==
    LET w1 == [w EXCEPT !.isShuttingDown = TRUE, !.lastEvent = "disconnect:shutdown",
                        !.opens = 0]
        w2 == gateClose(w1, NoReason)
        w3 == destroyPool(w2, "disconnect")
    IN  [w3 EXCEPT !.dpc = IF destroyStarts(w2) THEN "destroying" ELSE "skipped"]

\* disconnect() up to `await this.destroyPool()`
disconnect(w) ==
    LET w1 == [w EXCEPT !.isShuttingDown = TRUE, !.lastEvent = "disconnect:shutdown",
                        !.opens = 0]
        w2 == gateClose(w1, ErrDisconnected)
        w3 == destroyPool(w2, "disconnect")
    IN  [w3 EXCEPT !.dpc = IF destroyStarts(w2) THEN "destroying" ELSE "skipped"]

\* a verifyOrReconnect() that reconnects without probing
verifyOrReconnect_noProbe(w) == reconnect(w)

\* verifyOrReconnect() up to the probe it launches
verifyOrReconnect(w) ==
    IF w.handle = 0
    THEN reconnect(w)
    ELSE [w EXCEPT !.vprobes = w.vprobes \cup {w.handle}]

\* the `error` listener installed by createPool()/createClient()
onError(w) ==
    IF ~w.isReconnecting /\ ~w.isShuttingDown THEN verifyOrReconnect(w) ELSE w

\* the `end` listener installed by createClient()
onEnd(w) ==
    IF ~w.isReconnecting /\ ~w.isShuttingDown THEN reconnect(w) ELSE w

failed(w, c, err) ==
    [w EXCEPT !.gpc[c] = "failed",
              !.gres[c] = [kind |-> "error", val |-> err]]

\* what the supervisor has done to handle h: "destroyed" (end() settled, the field was
\* nulled), "destroying" (end() called) or "current"
Standing(w, h) ==
    IF w.hstate[h] = "ended" \/ h # w.handle THEN "destroyed"
    ELSE IF w.hstate[h] = "ending" THEN "destroying"
    ELSE "current"

returned(w, c, h) ==
    [w EXCEPT !.gpc[c] = "returned",
              !.gres[c] = [kind |-> "handle", val |-> Standing(w, h)]]

\* getClient() up to `await enterOrWait()`
getClient(w, c) ==
    IF w.isShuttingDown
    THEN failed(w, c, ErrShuttingDown)
    ELSE [gateEnter(w, c) EXCEPT !.gpc[c] = "wait1"]

\* getClient() after the first `await enterOrWait()` resolved
getClientAfterGate(w, c) ==
    IF w.isShuttingDown
    THEN failed(w, c, ErrShuttingDown)
    ELSE IF w.variant = "pool"
    THEN IF w.handle = 0
         THEN failed(w, c, ErrNotInitialized)
         ELSE [w EXCEPT !.gpc[c] = "checkout", !.gco[c] = w.handle]
    ELSE IF w.handle = 0
         THEN IF w.isReconnecting
              THEN [gateEnter(w, c) EXCEPT !.gpc[c] = "wait2"]
              ELSE failed(w, c, ErrNotInitialized)
         ELSE returned(w, c, w.handle)

\* CoreClient.getClient() after the second `await enterOrWait()` resolved
getClientAfterSecondWait(w, c) ==
    IF w.handle = 0
    THEN failed(w, c, ErrNotInitialized)
    ELSE returned(w, c, w.handle)

(***************************************************************************)
(* The state after `new CorePool(config, options)` / `new CoreClient(...)`:*)
(* the constructor validated the configuration and called initialize(),    *)
(* which ran createPool()/createClient() up to its first suspension.       *)
(***************************************************************************)
SupInit ==
    /\ variant \in {"pool", "client"}
    /\ _isReconnecting = FALSE
    /\ _isDestroying = FALSE
    /\ _isShuttingDown = FALSE
    /\ _handle = 1
    /\ hstate = [h \in Handles |-> IF h = 1 THEN "live" ELSE "free"]
    /\ hlisten = [h \in Handles |-> h = 1]
    /\ ipc = IF variant = "client" THEN "connecting" ELSE "created"
    /\ rpc = "idle"
    /\ rprobe = 0
    /\ iprobe = IF variant = "client" THEN 1 ELSE 0
    /\ dpc = "idle"
    /\ destroyer = "none"
    /\ vprobes = {}
    /\ gpc = [c \in Clients |-> "idle"]
    /\ gco = [c \in Clients |-> 0]
    /\ gres = [c \in Clients |-> NoResult]
    /\ lastEvent = "none"
    /\ opens = 0
    /\ crashed = FALSE

Init == GateInit /\ SupInit /\ ExecutorAbsent /\ NotificationAbsent

\* a driver call on handle h can still be answered successfully
Answers(h) == h # 0 /\ hstate[h] \in {"live", "ending"}

\* ---- initialize()

\* createClient(): `await this._client.connect()` settles
InitConnectDone(ok) ==
    /\ ~crashed
    /\ ipc = "connecting"
    /\ ok => Answers(iprobe)
    /\ LET w == World
       IN  SetWorld(IF ok
                    THEN [w EXCEPT !.ipc = "created", !.iprobe = 0]
                    ELSE [w EXCEPT !.ipc = "failed", !.iprobe = 0,
                                   !.hstate[iprobe] =
                                       IF w.hstate[iprobe] = "live"
                                       THEN "broken" ELSE w.hstate[iprobe]])

\* verifyPool()/verifyClient() called by initialize()
InitVerify ==
    /\ ~crashed
    /\ ipc = "created"
    /\ LET w == World
       IN  SetWorld(IF w.handle = 0
                    THEN [w EXCEPT !.ipc = "failed"]
                    ELSE [w EXCEPT !.ipc = "probing", !.iprobe = w.handle])

\* the probe of initialize() settles (ok: a row came back within the timeout)
InitProbeDone(ok) ==
    /\ ~crashed
    /\ ipc = "probing"
    /\ ok => Answers(iprobe)
    /\ LET w == World
       IN  SetWorld(IF ok
                    THEN initializeSucceeded(w)
                    ELSE [w EXCEPT !.ipc = "failed", !.iprobe = 0])

\* a constructor that also hands the startup failure to reconnect()
HostCrash_reconnects ==
    /\ ~crashed
    /\ ipc = "failed"
    /\ SetWorld(reconnect([World EXCEPT !.crashed = TRUE]))

\* constructor: initialize().catch(error => setImmediate(() => { throw error }))
HostCrash ==
    /\ ~crashed
    /\ ipc = "failed"
    /\ SetWorld([World EXCEPT !.crashed = TRUE])

\* ---- driver events

\* the handle emits `error`
HandleError(h) ==
    /\ ~crashed
    /\ hlisten[h]
    /\ hstate[h] \in {"live", "broken", "dead"}
    /\ SetWorld(onError(World))

\* the client emits `end`
HandleEnd(h) ==
    /\ ~crashed
    /\ variant = "client"
    /\ hlisten[h]
    /\ hstate[h] \in {"live", "broken"}
    /\ SetWorld(onEnd([World EXCEPT !.hstate[h] = "dead"]))

\* a probe launched by verifyOrReconnect() on handle h settles; more = other probes
\* of the same handle are still in flight
VerifyProbeDone(h, ok, more) ==
    /\ ~crashed
    /\ h \in vprobes
    /\ ok => Answers(h)
    /\ LET w == IF more THEN World ELSE [World EXCEPT !.vprobes = vprobes \ {h}]
       IN  SetWorld(IF ok THEN w ELSE reconnect(w))

\* ---- reconnect()

\* destroyPool() called by reconnect(): end() settled
ReconnectDestroyDone ==
    /\ ~crashed
    /\ rpc = "destroying"
    /\ destroyer = "reconnect"
    /\ SetWorld([destroyFinally(World) EXCEPT !.rpc = "destroyed"])

\* createPool()/createClient() called by reconnect()
ReconnectCreate ==
    /\ ~crashed
    /\ rpc = "destroyed"
    /\ LET w == World
       IN  IF createThrows(w)
           THEN SetWorld([w EXCEPT !.rpc = "backoff"])
           ELSE /\ FreeHandles(w) # {}
                /\ LET w1 == createPool(w)
                   IN  SetWorld(IF w.variant = "client"
                                THEN [w1 EXCEPT !.rpc = "connecting",
                                                !.rprobe = w1.handle]
                                ELSE [w1 EXCEPT !.rpc = "created"])

\* createClient() called by reconnect(): `await this._client.connect()` settles
ReconnectConnectDone(ok) ==
    /\ ~crashed
    /\ rpc = "connecting"
    /\ ok => Answers(rprobe)
    /\ LET w == World
       IN  SetWorld(IF ok
                    THEN [w EXCEPT !.rpc = "created", !.rprobe = 0]
                    ELSE [w EXCEPT !.rpc = "backoff", !.rprobe = 0,
                                   !.hstate[rprobe] =
                                       IF w.hstate[rprobe] = "live"
                                       THEN "broken" ELSE w.hstate[rprobe]])

\* verifyPool()/verifyClient() called by reconnect()
ReconnectVerify ==
    /\ ~crashed
    /\ rpc = "created"
    /\ LET w == World
       IN  SetWorld(IF w.handle = 0
                    THEN [w EXCEPT !.rpc = "backoff"]
                    ELSE [w EXCEPT !.rpc = "probing", !.rprobe = w.handle])

\* the probe of reconnect() settles
ReconnectProbeDone(ok) ==
    /\ ~crashed
    /\ rpc = "probing"
    /\ ok => Answers(rprobe)
    /\ LET w == World
       IN  SetWorld(IF ok
                    THEN reconnectSucceeded(w)
                    ELSE [w EXCEPT !.rpc = "backoff", !.rprobe = 0])

\* waitWithBackoff() is over: next turn of the loop
ReconnectBackoffDone ==
    /\ ~crashed
    /\ rpc = "backoff"
    /\ SetWorld(reconnectLoop(World))

\* ---- disconnect()

Disconnect ==
    /\ ~crashed
    /\ dpc = "idle"
    /\ SetWorld(disconnect(World))

\* destroyPool() called by disconnect(): end() settled
DisconnectDestroyDone ==
    /\ ~crashed
    /\ dpc = "destroying"
    /\ destroyer = "disconnect"
    /\ SetWorld([destroyFinally(World) EXCEPT !.dpc = "returned"])

\* destroyPool() returned at its guard: disconnect() returns
DisconnectReturn ==
    /\ ~crashed
    /\ dpc = "skipped"
    /\ SetWorld([World EXCEPT !.dpc = "returned"])

\* ---- getClient()

GetClientCall(c) ==
    /\ ~crashed
    /\ gpc[c] = "idle"
    /\ SetWorld(getClient(World, c))

\* the first `await enterOrWait()` of caller c settled
GetClientResume(c) ==
    /\ ~crashed
    /\ gpc[c] = "wait1"
    /\ TicketState(c) \in {"resolved", "rejected"}
    /\ LET w == [World EXCEPT !.g = dropTicket(World.g, c)]
       IN  SetWorld(IF TicketState(c) = "rejected"
                    THEN failed(w, c, TicketReason(c))
                    ELSE getClientAfterGate(w, c))

\* the second `await enterOrWait()` of caller c (CoreClient) settled
GetClientResumeSecond(c) ==
    /\ ~crashed
    /\ gpc[c] = "wait2"
    /\ TicketState(c) \in {"resolved", "rejected"}
    /\ LET w == [World EXCEPT !.g = dropTicket(World.g, c)]
       IN  SetWorld(IF TicketState(c) = "rejected"
                    THEN failed(w, c, TicketReason(c))
                    ELSE getClientAfterSecondWait(w, c))

\* `await this._pool.connect()` of caller c (CorePool) settled
GetClientCheckoutDone(c, ok) ==
    /\ ~crashed
    /\ gpc[c] = "checkout"
    /\ ok => Answers(gco[c])
    /\ LET w == [World EXCEPT !.gco[c] = 0]
       IN  SetWorld(IF ok
                    THEN returned(w, c, gco[c])
                    ELSE failed(w, c, ErrCheckout))

\* the caller took the outcome of getClient(); its slot is free again
GetClientForget(c) ==
    /\ ~crashed
    /\ gpc[c] \in {"returned", "failed"}
    /\ SetWorld([World EXCEPT !.gpc[c] = "idle", !.gres[c] = NoResult])

Next ==
    \/ \E ok \in BOOLEAN : InitConnectDone(ok)
    \/ InitVerify
    \/ \E ok \in BOOLEAN : InitProbeDone(ok)
    \/ HostCrash
    \/ \E h \in Handles : HandleError(h)
    \/ \E h \in Handles : HandleEnd(h)
    \/ \E h \in Handles, ok, more \in BOOLEAN : VerifyProbeDone(h, ok, more)
    \/ ReconnectDestroyDone
    \/ ReconnectCreate
    \/ \E ok \in BOOLEAN : ReconnectConnectDone(ok)
    \/ ReconnectVerify
    \/ \E ok \in BOOLEAN : ReconnectProbeDone(ok)
    \/ ReconnectBackoffDone
    \/ Disconnect
    \/ DisconnectDestroyDone
    \/ DisconnectReturn
    \/ \E c \in Clients : GetClientCall(c)
    \/ \E c \in Clients : GetClientResume(c)
    \/ \E c \in Clients : GetClientResumeSecond(c)
    \/ \E c \in Clients, ok \in BOOLEAN : GetClientCheckoutDone(c, ok)
    \/ \E c \in Clients : GetClientForget(c)

Spec == Init /\ [][Next]_vars

(***************************************************************************)
(* Subscribers of ConnectionEvents that throw.  emit() calls the listener  *)
(* in the caller's stack, so its exception leaves emit() and the method    *)
(* of ConnectionEvents that called it.                                     *)
(***************************************************************************)
\* disconnect() whose `disconnect` subscriber throws: the exception leaves
\* disconnect() before connection.close(reason) and destroyPool()
disconnect_subscriberThrows(w) ==
    [w EXCEPT !.isShuttingDown = TRUE, !.lastEvent = "disconnect:shutdown",
              !.dpc = "threw"]

\* the reconnect loop after a successful probe, whose `reconnect` subscriber
\* throws: the catch block of the loop logs it and the loop backs off
reconnectSucceeded_subscriberThrows(w) ==
    LET w1 == gateOpen(w)
    IN  [w1 EXCEPT !.lastEvent = "reconnect", !.rpc = "backoff", !.rprobe = 0]

\* reconnect() whose `disconnect` subscriber throws: the exception leaves
\* reconnect() after `_isReconnecting = true` and connection.close(), before
\* the loop; nobody handles the rejection and the flag is never reset
reconnect_subscriberThrows(w) ==
    IF w.isReconnecting \/ w.isShuttingDown
    THEN w
    ELSE LET w1 == gateClose([w EXCEPT !.isReconnecting = TRUE], NoReason)
         IN  [w1 EXCEPT !.lastEvent = "disconnect:lost", !.opens = 0]

\* initialize() after a successful probe, whose `connect` subscriber throws:
\* the gate is open already, the catch block logs and rethrows
initializeSucceeded_subscriberThrows(w) ==
    LET w1 == gateOpen(w)
    IN  [w1 EXCEPT !.lastEvent = "connect", !.ipc = "failed", !.iprobe = 0]

DisconnectSubscriberThrows ==
    /\ ~crashed
    /\ dpc = "idle"
    /\ SetWorld(disconnect_subscriberThrows(World))

ReconnectSubscriberThrows ==
    /\ ~crashed
    /\ rpc = "probing"
    /\ Answers(rprobe)
    /\ SetWorld(reconnectSucceeded_subscriberThrows(World))

\* the probe of initialize() succeeds and the `connect` subscriber throws
InitSubscriberThrows ==
    /\ ~crashed
    /\ ipc = "probing"
    /\ Answers(iprobe)
    /\ SetWorld(initializeSucceeded_subscriberThrows(World))

\* `void this.reconnect()` whose promise rejected: nobody handles the
\* rejection, which ends the process unless the host has installed a handler
\* of `unhandledRejection`
unhandledRejection(w, handled) == [w EXCEPT !.crashed = ~handled]

\* the `end` listener calls reconnect(), which gets past its guard, and the
\* `disconnect` subscriber throws
HandleEndSubscriberThrows(h, handled) ==
    /\ ~crashed
    /\ variant = "client"
    /\ hlisten[h]
    /\ hstate[h] \in {"live", "broken"}
    /\ ~_isReconnecting /\ ~_isShuttingDown
    /\ LET w == [World EXCEPT !.hstate[h] = "dead"]
       IN  SetWorld(unhandledRejection(reconnect_subscriberThrows(w), handled))

\* a probe launched by verifyOrReconnect() fails, its catch calls reconnect(),
\* which gets past its guard, and the `disconnect` subscriber throws
VerifyProbeSubscriberThrows(h, more, handled) ==
    /\ ~crashed
    /\ h \in vprobes
    /\ ~_isReconnecting /\ ~_isShuttingDown
    /\ LET w == IF more THEN World ELSE [World EXCEPT !.vprobes = vprobes \ {h}]
       IN  SetWorld(unhandledRejection(reconnect_subscriberThrows(w), handled))

(***************************************************************************)
(* disconnect() called again on the supervisor, and shutdown() of the      *)
(* Client facade: its modules settle either way, its disconnect() is the   *)
(* supervisor's.  The `disconnect` subscriber may throw in each of them.   *)
(***************************************************************************)
\* disconnect() called again, up to `await this.destroyPool()`, or up to the
\* emit when the `disconnect` subscriber throws
disconnectAgain(w, throws) ==
    LET w1 == [w EXCEPT !.isShuttingDown = TRUE, !.lastEvent = "disconnect:shutdown"]
        w2 == gateClose([w1 EXCEPT !.opens = 0], ErrDisconnected)
    IN  IF throws THEN w1 ELSE destroyPool(w2, "again")

DisconnectAgain(throws) ==
    /\ ~crashed
    /\ dpc # "idle"
    /\ SetWorld(disconnectAgain(World, throws))

\* destroyPool() called by the second disconnect(): end() settled
DisconnectAgainDestroyDone ==
    /\ ~crashed
    /\ destroyer = "again"
    /\ SetWorld(destroyFinally(World))

\* Client.shutdown() is called; c counts the calls
ClientShutdownCall(c) ==
    /\ clientpc[c] = "idle"
    /\ \A b \in Shutdowns : b < c => clientpc[b] # "idle"
    /\ IF clientShuttingDown
       THEN /\ clientpc' = [clientpc EXCEPT ![c] = "returned"]
            /\ UNCHANGED clientShuttingDown
       ELSE /\ clientShuttingDown' = TRUE
            /\ clientpc' = [clientpc EXCEPT ![c] = "queryModule"]
    /\ UNCHANGED shutdownErrors
    /\ UNCHANGED <<gateVars, supVars, execVars, notifOwnVars, handlerVars, auxButClient>>

\* `await this.queryModule.shutdown(...)` or
\* `await this.transactionModule.shutdown(...)` of Client.shutdown() settles;
\* a rejection is pushed to shutdownErrors.  After the second one
\* this.disconnect() is called in the same step and runs up to
\* `await this.destroyClient()`, or up to the emit when the `disconnect`
\* subscriber throws; clientpc tells what its promise waits for: the end() of
\* the first disconnect() ("disconnect"), the end() this later call started
\* ("disconnectAgain"), nothing ("disconnectSkipped"), or that it is rejected
\* ("disconnectThrew")
ClientStepDone(c, ok, throws) ==
    /\ ~crashed
    /\ clientpc[c] \in {"queryModule", "transactionModule"}
    /\ shutdownErrors' = [shutdownErrors EXCEPT ![c] = IF ok THEN @ ELSE @ + 1]
    /\ IF clientpc[c] = "queryModule"
       THEN /\ ~throws
            /\ clientpc' = [clientpc EXCEPT ![c] = "transactionModule"]
            /\ UNCHANGED <<gateVars, supVars>>
       ELSE LET w == World
            IN  IF throws
                THEN /\ SetSupervisor(IF w.dpc = "idle"
                                      THEN disconnect_subscriberThrows(w)
                                      ELSE disconnectAgain(w, TRUE))
                     /\ clientpc' = [clientpc EXCEPT ![c] = "disconnectThrew"]
                ELSE IF w.dpc = "idle"
                THEN /\ SetSupervisor(disconnect(w))
                     /\ clientpc' = [clientpc EXCEPT ![c] = "disconnect"]
                ELSE /\ SetSupervisor(disconnectAgain(w, FALSE))
                     /\ clientpc' = [clientpc EXCEPT ![c] =
                            IF destroyStarts(w) THEN "disconnectAgain"
                            ELSE "disconnectSkipped"]
    /\ UNCHANGED clientShuttingDown
    /\ UNCHANGED <<execVars, notifOwnVars, handlerVars, auxButClient>>

\* Client.shutdown() resumes after `await this.disconnect()`: a rejection of
\* disconnect() is caught and pushed to shutdownErrors; shutdown() throws when
\* shutdownErrors is not empty, else it returns
ClientDisconnectDone(c) ==
    /\ ~crashed
    /\ \/ clientpc[c] = "disconnect" /\ dpc = "returned"
       \/ clientpc[c] = "disconnectAgain" /\ destroyer # "again"
       \/ clientpc[c] = "disconnectSkipped"
       \/ clientpc[c] = "disconnectThrew"
    /\ LET errors == IF clientpc[c] = "disconnectThrew"
                     THEN shutdownErrors[c] + 1 ELSE shutdownErrors[c]
       IN  /\ shutdownErrors' = [shutdownErrors EXCEPT ![c] = errors]
           /\ clientpc' = [clientpc EXCEPT ![c] =
                  IF errors > 0 THEN "threw" ELSE "returned"]
    /\ UNCHANGED clientShuttingDown
    /\ UNCHANGED <<gateVars, supVars, execVars, notifOwnVars, handlerVars, auxButClient>>

\* the supervisor alone: nobody calls getClient()
SupervisorNext ==
    \/ \E ok \in BOOLEAN : InitConnectDone(ok)
    \/ InitVerify
    \/ \E ok \in BOOLEAN : InitProbeDone(ok)
    \/ HostCrash
    \/ \E h \in Handles : HandleError(h)
    \/ \E h \in Handles : HandleEnd(h)
    \/ \E h \in Handles, ok, more \in BOOLEAN : VerifyProbeDone(h, ok, more)
    \/ ReconnectDestroyDone
    \/ ReconnectCreate
    \/ \E ok \in BOOLEAN : ReconnectConnectDone(ok)
    \/ ReconnectVerify
    \/ \E ok \in BOOLEAN : ReconnectProbeDone(ok)
    \/ ReconnectBackoffDone
    \/ Disconnect
    \/ DisconnectDestroyDone
    \/ DisconnectReturn

SpecSupervisor == Init /\ [][SupervisorNext]_vars

\* the supervisor alone, with the setImmediate() callback of the constructor
\* run by the event loop once it is scheduled
SpecStartup == Init /\ [][SupervisorNext]_vars /\ WF_vars(HostCrash)

\* the supervisor without callers of getClient(), disconnect() called more
\* than once, with a `disconnect` subscriber that returns or throws, and a
\* Client facade that is shut down
AgainNext ==
    \/ SupervisorNext
    \/ DisconnectSubscriberThrows
    \/ \E h \in Handles, handled \in BOOLEAN : HandleEndSubscriberThrows(h, handled)
    \/ \E h \in Handles, more, handled \in BOOLEAN :
            VerifyProbeSubscriberThrows(h, more, handled)
    \/ \E throws \in BOOLEAN : DisconnectAgain(throws)
    \/ DisconnectAgainDestroyDone
    \/ \E c \in Shutdowns : ClientShutdownCall(c)
    \/ \E c \in Shutdowns, ok, throws \in BOOLEAN : ClientStepDone(c, ok, throws)
    \/ \E c \in Shutdowns : ClientDisconnectDone(c)

SpecAgain == Init /\ [][AgainNext]_vars

EventsNext ==
    \/ Next
    \/ DisconnectSubscriberThrows
    \/ ReconnectSubscriberThrows
    \/ InitSubscriberThrows
    \/ \E h \in Handles, handled \in BOOLEAN : HandleEndSubscriberThrows(h, handled)
    \/ \E h \in Handles, more, handled \in BOOLEAN :
            VerifyProbeSubscriberThrows(h, more, handled)

SpecEvents == Init /\ [][EventsNext]_vars

(***************************************************************************)
(* Supervisor claims                                                       *)
(***************************************************************************)
ErrorResult(err) == [kind |-> "error", val |-> err]

\* C4: a getClient() call made while _isShuttingDown is set fails with the
\* shutting-down error without registering at the gate and without a driver call; a
\* call that resumes from its wait at the gate, the gate having let it through, while
\* _isShuttingDown is set, fails instead of checking out or returning a handle: with
\* the shutting-down error after the first wait, with some error after the second
\* wait of CoreClient.getClient().
C4_ShutdownRejectsGetClient ==
    [][ \A c \in Clients :
          /\ (GetClientCall(c) /\ _isShuttingDown) =>
                /\ gpc'[c] = "failed"
                /\ gres'[c] = ErrorResult(ErrShuttingDown)
                /\ tickets' = tickets
                /\ _waiters' = _waiters
                /\ _pendingPromise' = _pendingPromise
                /\ gco' = gco
                /\ hstate' = hstate
          /\ (GetClientResume(c) /\ TicketState(c) = "resolved" /\ _isShuttingDown) =>
                /\ gpc'[c] = "failed"
                /\ gres'[c] = ErrorResult(ErrShuttingDown)
                /\ gco' = gco
                /\ hstate' = hstate
          /\ (GetClientResumeSecond(c) /\ TicketState(c) = "resolved"
                  /\ _isShuttingDown) =>
                /\ gpc'[c] = "failed"
                /\ gres'[c].kind = "error"
      ]_vars

\* C5: disconnect() rejects the promise of every getClient() call parked at the gate
\* with the disconnect reason; such a call then fails with that reason and never
\* returns a handle; while _isShuttingDown is set no getClient() call is parked.
C5_DisconnectFailsParkedCallers ==
    /\ [](_isShuttingDown => \A c \in Clients : TicketState(c) # "parked")
    /\ [][ /\ Disconnect => \A c \in Clients :
                 TicketState(c) = "parked" =>
                     /\ TicketState(c)' = "rejected"
                     /\ TicketReason(c)' = ErrDisconnected
           /\ \A c \in Clients :
                 TicketState(c) = "rejected" =>
                     \/ (gpc'[c] = gpc[c] /\ TicketState(c)' = "rejected"
                            /\ TicketReason(c)' = TicketReason(c))
                     \/ (gpc'[c] = "failed" /\ gres'[c] = ErrorResult(TicketReason(c)))
         ]_vars

\* a getClient() call parked during a reconnect (startup had succeeded) has failed
\* with the disconnect reason
C5_Witness ==
    \E c \in Clients :
        /\ ipc = "done"
        /\ gpc[c] = "failed"
        /\ gres[c] = ErrorResult(ErrDisconnected)

\* C6: once disconnect() has been called the gate is never open.
C6_GateClosedAfterDisconnect == _isShuttingDown => ~_isOpen

\* C7: after disconnect() has returned the supervisor holds no driver handle, save
\* one whose end() was called and has not settled yet.
C7_NoHandleAfterDisconnect ==
    dpc = "returned" => (_handle = 0 \/ hstate[_handle] = "ending")

\* the supervisor is Ready: it holds a handle, the last lifecycle event it emitted
\* reports a successful create+probe, and neither a reconnect nor a shutdown runs
Ready ==
    /\ _handle # 0
    /\ lastEvent \in {"connect", "reconnect"}
    /\ ~_isReconnecting
    /\ ~_isShuttingDown

\* C8: the gate is open exactly when the supervisor is Ready.
C8_GateOpenIffReady == _isOpen <=> Ready

(***************************************************************************)
(* Liveness.  disconnect() is never called.  The loop of reconnect() is    *)
(* sequential code, so each of its steps is taken once it can be; every    *)
(* driver call and timer settles; and the database is eventually healthy:  *)
(* connect() and the probe, attempted again and again on a healthy handle, *)
(* succeed at some attempt.  getClient() is left out: it writes no field   *)
(* that initialize(), reconnect() or the listeners read.                   *)
(***************************************************************************)
NextLive ==
    \/ \E ok \in BOOLEAN : InitConnectDone(ok)
    \/ InitVerify
    \/ \E ok \in BOOLEAN : InitProbeDone(ok)
    \/ HostCrash
    \/ \E h \in Handles : HandleError(h)
    \/ \E h \in Handles : HandleEnd(h)
    \/ \E h \in Handles, ok, more \in BOOLEAN : VerifyProbeDone(h, ok, more)
    \/ ReconnectDestroyDone
    \/ ReconnectCreate
    \/ \E ok \in BOOLEAN : ReconnectConnectDone(ok)
    \/ ReconnectVerify
    \/ \E ok \in BOOLEAN : ReconnectProbeDone(ok)
    \/ ReconnectBackoffDone

LiveFairness ==
    /\ WF_vars(ReconnectDestroyDone)
    /\ WF_vars(ReconnectCreate)
    /\ WF_vars(\E ok \in BOOLEAN : ReconnectConnectDone(ok))
    /\ WF_vars(ReconnectVerify)
    /\ WF_vars(\E ok \in BOOLEAN : ReconnectProbeDone(ok))
    /\ WF_vars(ReconnectBackoffDone)
    /\ WF_vars(\E h \in Handles, ok \in BOOLEAN : VerifyProbeDone(h, ok, FALSE))
    /\ SF_vars(ReconnectConnectDone(TRUE))
    /\ SF_vars(ReconnectVerify /\ Answers(_handle))
    /\ SF_vars(ReconnectProbeDone(TRUE))

SpecLive == Init /\ [][NextLive]_vars /\ LiveFairness

\* C9: when disconnect() is never called, a reconnect that starts after a successful
\* startup ends only by opening the gate and emitting `reconnect` (the loop never
\* gives up), and, connect and probe succeeding at some attempt, it does end: the
\* gate is open again, _isReconnecting is cleared and `reconnect` was emitted.
C9_ReconnectLeadsToReady ==
    /\ [][(_isReconnecting /\ ~_isReconnecting') =>
              (_isOpen' /\ lastEvent' = "reconnect")]_vars
    /\ (ipc = "done" /\ _isReconnecting)
           ~> (_isOpen /\ ~_isReconnecting /\ lastEvent = "reconnect")

\* Ready again after a runtime failure
C9_Witness ==
    /\ ipc = "done"
    /\ ~_isReconnecting
    /\ _isOpen
    /\ lastEvent = "reconnect"
    /\ dpc = "idle"

\* C10: a successful probe of the reconnect loop leaves the gate open, emits
\* `reconnect` and ends the loop; the gate goes from closed to open at most once
\* after each failure or shutdown the supervisor observed; an open gate is closed
\* only by the step that observes a new failure (reconnect() starts) or a shutdown
\* (disconnect()).
C10_ProbeOpensGateOnce ==
    [][ /\ ReconnectProbeDone(TRUE) =>
              (_isOpen' /\ lastEvent' = "reconnect" /\ rpc' = "idle"
                  /\ ~_isReconnecting')
        /\ (~_isOpen /\ _isOpen') => opens = 0
        /\ (_isOpen /\ ~_isOpen') =>
              \/ (~_isReconnecting /\ _isReconnecting')
              \/ (~_isShuttingDown /\ _isShuttingDown')
      ]_vars

\* the reconnect loop has just opened the gate after a failure
C10_Witness ==
    /\ _isOpen
    /\ opens = 1
    /\ lastEvent = "reconnect"
    /\ rpc = "idle"
    /\ ~_isShuttingDown

\* C11: getClient() never returns a handle the supervisor has destroyed or has started
\* destroying: every handle it returned was, at the moment of the return, the current
\* one with no end() called on it.
C11_NoStaleHandle ==
    \A c \in Clients :
        (gpc[c] = "returned" /\ gres[c].kind = "handle") => gres[c].val = "current"

(***************************************************************************)
(* Executors: the closures returned by queryModule and transactionModule.  *)
(* getClient and the driver are the environment: each call of theirs       *)
(* settles with a value or with an error that carries a code.  A request   *)
(* is one call of queryWithRetry or transactionWithRetry; it is handled as *)
(* a value and written back by SetRequest.                                 *)
(***************************************************************************)
Undefined == -1

\* values of options.maxAttempts, in halves
AttemptOptions == {Undefined} \cup (0 .. MaxOptionHalves)

\* Math.floor of a number given in halves
floor(halves) == halves \div 2

\* const maxAttempts = Math.max(1, Math.floor(options.maxAttempts ?? 1))
maxAttemptsOf(option) ==
    LET given == IF option = Undefined THEN 1 ELSE floor(option)
    IN  IF given < 1 THEN 1 ELSE given

maxAttempts == maxAttemptsOf(maxAttemptsOption)

\* SQLSTATE and network codes of error.utils.ts
pgConnectionErrors == {"08000", "08003", "08006", "08001", "08004", "08007", "08P01"}
pgTxnRollbackErrors == {"40000", "40001", "40002", "40003", "40P01"}
pgLockErrors == {"55P03"}
pgInterventionErrors == {"57000", "57014", "57P01", "57P02", "57P03", "57P04", "57P05"}
pgResourceErrors == {"53000", "53100", "53200", "53300", "53400"}
retriableNetworkCodes ==
    {"ECONNRESET", "ECONNREFUSED", "ECONNABORTED", "ETIMEDOUT", "EPIPE",
     "EHOSTUNREACH", "ENETUNREACH", "EAI_AGAIN"}

\* codes the environment's errors carry: a network code in lower case, as Node
\* never writes it but toUpperCase accepts it, and unique_violation
ErrorCodes == {"econnreset", "23505"}

\* codes written in lower or mixed case, with their upper-case form
LowerCaseCodes ==
    {<<"econnreset", "ECONNRESET">>, <<"EConnReset", "ECONNRESET">>,
     <<"eai_again", "EAI_AGAIN">>, <<"etimedout", "ETIMEDOUT">>,
     <<"08p01", "08P01">>, <<"40p01", "40P01">>, <<"55p03", "55P03">>,
     <<"57p01", "57P01">>, <<"25p01", "25P01">>, <<"25p02", "25P02">>,
     <<"xx000", "XX000">>}

\* String.prototype.toUpperCase on the codes of the model: a code that is not
\* listed above has no lower-case letter
toUpperCase(code) ==
    IF \E pair \in LowerCaseCodes : pair[1] = code
    THEN (CHOOSE pair \in LowerCaseCodes : pair[1] = code)[2]
    ELSE code

isRetriableError(err) ==
    /\ err.code # "none"
    /\ toUpperCase(err.code) \in
          (pgConnectionErrors \cup pgTxnRollbackErrors \cup pgLockErrors
              \cup pgInterventionErrors \cup pgResourceErrors
              \cup retriableNetworkCodes)

\* ---- isRetriableError(err) on every kind of argument

\* `!err || typeof err !== 'object'`
notAnObject(err) == err.type # "object"

\* isRetriableError(err) for a JavaScript value err: its type, and for an
\* object the type and text of its `code` and its `message`
isRetriableErrorOf(err) ==
    IF notAnObject(err)
    THEN FALSE
    ELSE isRetriableError([src |-> "driver",
                           code |-> IF err.codeType = "string" THEN err.code
                                    ELSE "none"])

\* the codes isRetriableError() is applied to: those of its sets, the other
\* transaction-state codes, codes of errors that are no faults of the
\* connection, and codes in lower case
CodeTexts ==
    pgConnectionErrors \cup pgTxnRollbackErrors \cup pgLockErrors
        \cup pgInterventionErrors \cup pgResourceErrors \cup retriableNetworkCodes
        \cup {"25000", "25001", "25P01", "25P02"}
        \cup {"23505", "42P01", "XX000", "0", ""}
        \cup {pair[1] : pair \in LowerCaseCodes}

ErrValues ==
    {NotAnError(type) : type \in {"null", "undefined", "zero", "number", "emptyString",
                                  "string", "boolean", "function"}}
        \cup {[type |-> "object", codeType |-> codeType, code |-> "", message |-> m] :
                codeType \in {"undefined", "null", "number", "object"},
                m \in {"", "connection reset"}}
        \cup {[type |-> "object", codeType |-> "string", code |-> code, message |-> m] :
                code \in CodeTexts, m \in {"", "connection reset"}}

\* isRetriableError(err) is called and returns
IsRetriableErrorCall(err) ==
    /\ retriable' = [called |-> TRUE, err |-> err, ret |-> isRetriableErrorOf(err)]
    /\ UNCHANGED <<gateVars, supVars, execVars, notifOwnVars, handlerVars,
                   auxButRetriable>>

SpecRetriable ==
    GateOnlyInit /\ [][\E err \in ErrValues : IsRetriableErrorCall(err)]_vars

\* ---- waitWithBackoff(attempt, options)

\* 1_000, the delay of the first attempt in milliseconds
BaseMs == 1000

\* the two builds of wait.utils.ts: the sources and dist/index.cjs
Builds == {"src", "dist"}

\* Math.max
Max(a, b) == IF a > b THEN a ELSE b

\* `backoff` of a build that does not cap it
backoffOf_uncapped(build, n, maxDelayMs) ==
    IF build = "src"
    THEN BaseMs * n
    ELSE BaseMs * 2 ^ Max(0, n - 1)

\* `backoff`: Math.min(1_000 * attempt, maxDelayMs) in the sources,
\* Math.min(1e3 * 2 ** Math.max(0, attempt - 1), maxDelayMs) in dist/index.cjs
backoffOf(build, n, maxDelayMs) ==
    IF build = "src"
    THEN Min(BaseMs * n, maxDelayMs)
    ELSE Min(BaseMs * 2 ^ Max(0, n - 1), maxDelayMs)

\* `jitter`: Math.random() * options.maxJitterMs, with Math.random() = random /
\* RandomParts, a value of [0, 1)
jitterOf(random, maxJitterMs) == (random * maxJitterMs) \div RandomParts

\* values of options.maxDelayMs and options.maxJitterMs: those of the callers
\* (10 s, 15 s, 500 ms) and others
MaxDelays == {0, 1000, 2500, 10000, 15000}
MaxJitters == {0, 500, 1000}

\* waitWithBackoff(attempt, options) is called and sets its timer
WaitWithBackoffCall(build, n, maxDelayMs, maxJitterMs, random) ==
    /\ slept' = [called |-> TRUE, build |-> build, attempt |-> n,
                 maxDelayMs |-> maxDelayMs, maxJitterMs |-> maxJitterMs,
                 backoff |-> backoffOf(build, n, maxDelayMs),
                 delay |-> backoffOf(build, n, maxDelayMs)
                               + jitterOf(random, maxJitterMs)]
    /\ UNCHANGED <<gateVars, supVars, execVars, notifOwnVars, handlerVars,
                   auxButSlept>>

SpecBackoff ==
    GateOnlyInit /\
        [][\E build \in Builds, n \in 1 .. MaxAttempt, maxDelayMs \in MaxDelays,
              maxJitterMs \in MaxJitters, random \in 0 .. RandomParts - 1 :
                WaitWithBackoffCall(build, n, maxDelayMs, maxJitterMs, random)]_vars

\* ---- ConnectionController.testConnection(instance)

\* the connection test timeout in milliseconds
testTimeoutMs == 10000

\* what instance.query("SELECT 1") does: it resolves with a result that has
\* rows, with a result without `rows` or with no result, it rejects with a
\* driver error, or it throws at once
QueryAnswers ==
    {[kind |-> "rows", rows |-> n, code |-> "none"] : n \in 0 .. MaxRows}
        \cup {[kind |-> kind, rows |-> 0, code |-> "none"] :
                kind \in {"noRows", "noResult", "throws"}}
        \cup {[kind |-> "error", rows |-> 0, code |-> code] : code \in ErrorCodes}

\* `!result?.rows?.length`
probeFailed(answer) == answer.kind \in {"noRows", "noResult"} \/ answer.rows = 0

\* how the try block ends once the race is settled by the query
queryOutcome(answer) ==
    CASE answer.kind \in {"error", "throws"} -> "driverError"
      [] probeFailed(answer) -> "probeFailed"
      [] OTHER -> "ok"

\* a race whose finally block is missing: the timer is cleared on success only
settle_noFinally(t, winner) ==
    LET result == IF winner = "timer" THEN "timeout" ELSE queryOutcome(t.answer)
    IN  [t EXCEPT !.pc = "done",
                  !.winner = winner,
                  !.outcome = result,
                  !.queryPending = winner = "timer",
                  !.timer = IF winner = "timer" THEN "fired"
                            ELSE IF result = "ok" THEN "cancelled" ELSE "pending",
                  !.cleared = result = "ok"]

\* `await Promise.race([query, timeout])` settles for the winner, the rows are
\* tested, and the finally block calls clearTimeout(timer)
settle(t, winner) ==
    [t EXCEPT !.pc = "done",
              !.winner = winner,
              !.outcome = IF winner = "timer" THEN "timeout"
                          ELSE queryOutcome(t.answer),
              !.queryPending = winner = "timer",
              !.timer = IF winner = "timer" THEN "fired" ELSE "cancelled",
              !.cleared = TRUE]

SetTest(t) ==
    /\ test' = t
    /\ UNCHANGED <<gateVars, supVars, execVars, notifOwnVars, handlerVars, auxButTest>>

\* testConnection(instance) is called: the timer is set and the query issued;
\* the driver will answer after `latency` ticks
TestConnectionCall(answer, latency) ==
    /\ test.pc = "idle"
    /\ LET t == [test EXCEPT !.pc = "racing", !.answer = answer, !.latency = latency,
                             !.timer = "pending", !.queryPending = answer.kind # "throws"]
       IN  SetTest(IF answer.kind = "throws" THEN settle(t, "query") ELSE t)

\* time passes; the timer is due after testTimeoutMs
TestTick ==
    /\ test.pc = "racing"
    /\ test.clock * TickMs < testTimeoutMs
    /\ SetTest([test EXCEPT !.clock = @ + 1])

\* the driver answers while the race is on
TestQuerySettles ==
    /\ test.pc = "racing"
    /\ test.clock >= test.latency
    /\ SetTest(settle(test, "query"))

\* the timer fires while the race is on
TestTimerFires ==
    /\ test.pc = "racing"
    /\ test.timer = "pending"
    /\ test.clock * TickMs >= testTimeoutMs
    /\ SetTest(settle(test, "timer"))

\* the driver answers after the timer has won: nobody waits for it
TestLateAnswer ==
    /\ test.pc = "done"
    /\ test.queryPending
    /\ SetTest([test EXCEPT !.queryPending = FALSE])

TestNext ==
    \/ \E answer \in QueryAnswers, latency \in 0 .. MaxLatency :
            TestConnectionCall(answer, latency)
    \/ TestTick
    \/ TestQuerySettles
    \/ TestTimerFires
    \/ TestLateAnswer

SpecTest == GateOnlyInit /\ [][TestNext]_vars

ErrModuleShuttingDown == [src |-> "module", code |-> "shutting down"]

Request(r) ==
    [pc |-> xpc[r], attempt |-> attempt[r], client |-> client[r],
     inTransaction |-> inTransaction[r], issued |-> issued[r],
     results |-> results[r], lastError |-> lastError[r], outcome |-> outcome[r],
     held |-> held[r],
     reported |-> reported[r], active |-> activeRequests]

SetRequest(r, x) ==
    /\ xpc' = [xpc EXCEPT ![r] = x.pc]
    /\ attempt' = [attempt EXCEPT ![r] = x.attempt]
    /\ client' = [client EXCEPT ![r] = x.client]
    /\ inTransaction' = [inTransaction EXCEPT ![r] = x.inTransaction]
    /\ issued' = [issued EXCEPT ![r] = x.issued]
    /\ results' = [results EXCEPT ![r] = x.results]
    /\ lastError' = [lastError EXCEPT ![r] = x.lastError]
    /\ outcome' = [outcome EXCEPT ![r] = x.outcome]
    /\ held' = [held EXCEPT ![r] = x.held]
    /\ reported' = [reported EXCEPT ![r] = x.reported]
    /\ activeRequests' = x.active
    /\ UNCHANGED <<xkind, xpooled, maxAttemptsOption, batch, isShuttingDown, spc,
                   timeoutMs, elapsed>>
    /\ UNCHANGED <<gateVars, supVars, notifVars>>

\* client.query(...) is called: the statement goes to the attempt's client; a
\* statement of the batch is the one the `for ... of` loop has come to
issue(x, statement) ==
    [x EXCEPT !.pc = statement,
              !.issued = Append(x.issued,
                  [stmt |-> statement, on |-> x.client,
                   idx |-> IF statement = "statement" THEN Len(x.results) + 1
                           ELSE 0])]

\* an inner `finally` that releases nothing
release_never(x) == x

\* the inner `finally`: release the attempt's client if it has release()
release(x) ==
    IF x.client # 0 /\ xpooled
    THEN [x EXCEPT !.held = x.held - 1]
    ELSE x

\* a call that settles without the outer `finally`
exit_noDecrement(x, out) ==
    [x EXCEPT !.outcome = out, !.pc = "done",
              !.attempt = 0, !.client = 0, !.inTransaction = FALSE,
              !.results = << >>, !.lastError = NoError, !.issued = << >>,
              !.reported = {}]

\* the outer `finally` and the settling of the promise the call returned
exit(x, out) ==
    [x EXCEPT !.active = x.active - 1, !.outcome = out, !.pc = "done",
              !.attempt = 0, !.client = 0, !.inTransaction = FALSE,
              !.results = << >>, !.lastError = NoError, !.issued = << >>,
              !.reported = {}]

\* `return result` / `return results`
returnRows(x, rows) ==
    exit(release(x), [kind |-> "value", err |-> NoError, rows |-> rows])

\* `throw err` inside the catch block
throw(x, err) ==
    exit(release(x), [kind |-> "error", err |-> err, rows |-> << >>])

\* a catch block that takes the attempt after the last for a retry
decide_retryOnLast(x, err) ==
    IF x.attempt > maxAttempts \/ ~isRetriableError(err)
    THEN throw(x, err)
    ELSE [x EXCEPT !.reported = x.reported \cup {"transient"},
                   !.pc = "backoff"]

\* the catch block from `const isLastAttempt` on, for the error `err`
decide(x, err) ==
    IF x.attempt >= maxAttempts \/ ~isRetriableError(err)
    THEN throw(x, err)
    ELSE [x EXCEPT !.reported = x.reported \cup {"transient"},
                   !.pc = "backoff"]

\* the catch block of an attempt, up to its first suspension
catch(x, err) ==
    LET x1 == [x EXCEPT !.lastError = err]
    IN  IF xkind = "transaction" /\ x1.inTransaction /\ x1.client # 0
        THEN issue(x1, "ROLLBACK")
        ELSE decide(x1, err)

\* a catch block that goes on with the error of the ROLLBACK
afterRollback_rollbackErrorWins(x, ok, rollbackErr) ==
    IF ok THEN decide(x, x.lastError)
    ELSE decide([x EXCEPT !.reported = x.reported \cup {"rollback"}], rollbackErr)

\* the catch block after `await client.query('ROLLBACK')` settled
afterRollback(x, ok, rollbackErr) ==
    LET x1 == IF ok THEN x
              ELSE [x EXCEPT !.reported = x.reported \cup {"rollback"}]
    IN  decide(x1, x1.lastError)

\* a turn of the loop that goes on with the `results` of the turn before
startAttempt_keepsResults(x) ==
    IF x.attempt <= maxAttempts
    THEN [x EXCEPT !.client = 0, !.inTransaction = FALSE,
                   !.issued = << >>, !.reported = {}, !.pc = "getClient"]
    ELSE exit(x, [kind |-> "error", err |-> x.lastError, rows |-> << >>])

\* one turn of `for (let attempt = 1; attempt <= maxAttempts; attempt++)`, up to
\* `await options.getClient()`
startAttempt(x) ==
    IF x.attempt <= maxAttempts
    THEN [x EXCEPT !.client = 0, !.inTransaction = FALSE, !.results = << >>,
                   !.issued = << >>, !.reported = {}, !.pc = "getClient"]
    ELSE exit(x, [kind |-> "error", err |-> x.lastError, rows |-> << >>])

\* a call that is admitted whatever isShuttingDown says
withRetry_noFastFail(x) ==
    startAttempt([x EXCEPT !.active = x.active + 1, !.attempt = 1])

\* queryWithRetry()/transactionWithRetry() up to its first suspension
withRetry(x) ==
    IF isShuttingDown
    THEN [x EXCEPT !.outcome = [kind |-> "error", err |-> ErrModuleShuttingDown,
                                rows |-> << >>],
                   !.pc = "done"]
    ELSE startAttempt([x EXCEPT !.active = x.active + 1, !.attempt = 1])

\* the statement that follows the successful ones of a transaction attempt
nextStatement(x) ==
    IF Len(x.results) < batch THEN issue(x, "statement") ELSE issue(x, "COMMIT")

\* `client = await options.getClient()` yielded a client
gotClient(x) ==
    LET x1 == [x EXCEPT !.client = x.attempt,
                        !.held = IF xpooled THEN x.held + 1 ELSE x.held]
    IN  IF xkind = "query" THEN issue(x1, "query") ELSE issue(x1, "BEGIN")

\* the statement awaited by the attempt succeeded
statementDone(x) ==
    CASE x.pc = "query" -> returnRows(x, <<[stmt |-> 1, attempt |-> x.attempt]>>)
      [] x.pc = "BEGIN" -> nextStatement([x EXCEPT !.inTransaction = TRUE])
      [] x.pc = "statement" ->
            nextStatement([x EXCEPT !.results =
                Append(x.results, [stmt |-> Len(x.results) + 1,
                                   attempt |-> x.attempt])])
      [] x.pc = "COMMIT" -> returnRows([x EXCEPT !.inTransaction = FALSE], x.results)

\* Date.now() - startTime is followed as its position among the whole seconds:
\* 2k stands for k seconds exactly, 2k + 1 for more than k and less than k + 1
\* seconds.
\* `Date.now() - startTime > timeoutMs`: strict, and false against a timeoutMs
\* that is Infinity or NaN
exceeds(now, limit) == limit.kind = "number" /\ now > 2 * limit.s

\* the first position that exceeds limit; the clock is followed up to it, later
\* readings comparing as it does.  Against Infinity and NaN every reading
\* compares alike, and the clock is followed for one position
Late(limit) == IF limit.kind = "number" THEN 2 * limit.s + 1 ELSE 1

\* a loop that never looks at the clock
poll_noTimeout(now, limit) ==
    IF activeRequests > 0
    THEN spc' = "sleeping"
    ELSE spc' = "returned"

\* shutdown(): the `while (activeRequests > 0)` loop up to its next
\* suspension; now is Date.now() - startTime and limit is timeoutMs
poll(now, limit) ==
    IF activeRequests > 0
    THEN spc' = IF exceeds(now, limit) THEN "timedout" ELSE "sleeping"
    ELSE spc' = "returned"

ExecInit ==
    /\ xkind \in {"query", "transaction"}
    /\ xpooled \in BOOLEAN
    /\ maxAttemptsOption \in AttemptOptions
    /\ batch \in IF xkind = "query" THEN {0} ELSE 0 .. MaxStatements
    /\ activeRequests = 0
    /\ isShuttingDown = FALSE
    /\ xpc = [r \in Requests |-> "idle"]
    /\ attempt = [r \in Requests |-> 0]
    /\ client = [r \in Requests |-> 0]
    /\ inTransaction = [r \in Requests |-> FALSE]
    /\ issued = [r \in Requests |-> << >>]
    /\ results = [r \in Requests |-> << >>]
    /\ lastError = [r \in Requests |-> NoError]
    /\ outcome = [r \in Requests |-> NoOutcome]
    /\ held = [r \in Requests |-> 0]
    /\ reported = [r \in Requests |-> {}]
    /\ spc = "idle"
    /\ timeoutMs = Seconds(0)
    /\ elapsed = 0

ExecOnlyInit == GateInit /\ SupervisorAbsent /\ ExecInit /\ NotificationAbsent

\* queryWithRetry()/transactionWithRetry() is called; r counts the calls
WithRetryCall(r) ==
    /\ xpc[r] = "idle"
    /\ \A q \in Requests : q < r => xpc[q] # "idle"
    /\ SetRequest(r, withRetry(Request(r)))

\* `await options.getClient()` settles
GetClientDone(r, ok, code) ==
    /\ xpc[r] = "getClient"
    /\ SetRequest(r, IF ok THEN gotClient(Request(r))
                     ELSE catch(Request(r), [src |-> "getClient", code |-> code]))

\* `await client.query(...)` of the try block settles
StatementDone(r, ok, code) ==
    /\ xpc[r] \in {"query", "BEGIN", "statement", "COMMIT"}
    /\ SetRequest(r, IF ok THEN statementDone(Request(r))
                     ELSE catch(Request(r), [src |-> xpc[r], code |-> code]))

\* `await client.query('ROLLBACK')` settles
RollbackDone(r, ok, code) ==
    /\ xpc[r] = "ROLLBACK"
    /\ SetRequest(r, afterRollback(Request(r), ok,
                                   [src |-> "ROLLBACK", code |-> code]))

\* `await waitWithBackoff(...)` settles: inner finally, attempt++, next turn
BackoffDone(r) ==
    /\ xpc[r] = "backoff"
    /\ LET x == release(Request(r))
       IN  SetRequest(r, startAttempt([x EXCEPT !.attempt = x.attempt + 1]))

\* shutdown(onLog, timeoutMs) is called.  When a call is active the clock is
\* read twice, for startTime and for the test of the timeout, with onLog()
\* between the two: d is the position of the time that passed between them.
\* When no call is active the loop is not entered and the clock is read once
ShutdownCall(t, d) ==
    /\ spc = "idle"
    /\ d <= Late(t)
    /\ activeRequests = 0 => d = 0
    /\ isShuttingDown' = TRUE
    /\ timeoutMs' = t
    /\ elapsed' = d
    /\ poll(d, t)
    /\ UNCHANGED <<xkind, xpooled, maxAttemptsOption, batch, activeRequests, xpc,
                   attempt, client, inTransaction, issued, results, lastError,
                   outcome, held, reported>>
    /\ UNCHANGED <<gateVars, supVars, notifVars>>

\* the one-second timer of shutdown() fires and the loop tests again.  The
\* clock has moved on by d positions, at least one.  The new reading can be a
\* whole number of seconds exactly, at which a timeoutMs of that many seconds
\* is not yet exceeded and the loop sleeps once more, or any later reading
ShutdownWake(d) ==
    /\ spc = "sleeping"
    /\ d >= 1 /\ d <= Late(timeoutMs)
    /\ LET now == IF elapsed + d > Late(timeoutMs) THEN Late(timeoutMs)
                  ELSE elapsed + d
       IN  /\ elapsed' = now
           /\ poll(now, timeoutMs)
    /\ UNCHANGED <<xkind, xpooled, maxAttemptsOption, batch, activeRequests,
                   isShuttingDown, timeoutMs, xpc, attempt, client, inTransaction,
                   issued, results, lastError, outcome, held, reported>>
    /\ UNCHANGED <<gateVars, supVars, notifVars>>

ExecNext ==
    \/ \E r \in Requests : WithRetryCall(r)
    \/ \E r \in Requests, ok \in BOOLEAN, code \in ErrorCodes : GetClientDone(r, ok, code)
    \/ \E r \in Requests, ok \in BOOLEAN, code \in ErrorCodes : StatementDone(r, ok, code)
    \/ \E r \in Requests, ok \in BOOLEAN, code \in ErrorCodes : RollbackDone(r, ok, code)
    \/ \E r \in Requests : BackoffDone(r)
    \/ \E t \in Timeouts, d \in 0 .. Late(Seconds(MaxTimeout)) : ShutdownCall(t, d)
    \/ \E d \in 1 .. Late(Seconds(MaxTimeout)) : ShutdownWake(d)

\* the executors under concurrent calls and shutdown(): the calls carry empty
\* batches and maxAttempts is a whole number or absent, the statements of a
\* batch and the rounding of maxAttempts being read by neither activeRequests
\* nor shutdown()
ExecInitConcurrent ==
    /\ ExecOnlyInit
    /\ batch = 0
    /\ maxAttemptsOption = Undefined \/ maxAttemptsOption % 2 = 0

SpecExec == ExecInitConcurrent /\ [][ExecNext]_vars

\* Client.transaction() called concurrently on a Client facade: the executor
\* is its transactionModule, and getClient() is CoreClient.getClient(), which
\* yields the one `_client` of the supervisor, without release()
ClientTransactionInit ==
    /\ ExecOnlyInit
    /\ xkind = "transaction"
    /\ ~xpooled
    /\ batch > 0
    /\ maxAttemptsOption = Undefined \/ maxAttemptsOption % 2 = 0

ClientTransactionNext ==
    \/ \E r \in Requests : WithRetryCall(r)
    \/ \E r \in Requests, ok \in BOOLEAN, code \in ErrorCodes : GetClientDone(r, ok, code)
    \/ \E r \in Requests, ok \in BOOLEAN, code \in ErrorCodes : StatementDone(r, ok, code)
    \/ \E r \in Requests, ok \in BOOLEAN, code \in ErrorCodes : RollbackDone(r, ok, code)
    \/ \E r \in Requests : BackoffDone(r)

SpecClientTransaction == ClientTransactionInit /\ [][ClientTransactionNext]_vars

\* one call followed from its start to its end, for every configuration
Caller == CHOOSE r \in Requests : \A q \in Requests : r <= q

CallNext ==
    \/ WithRetryCall(Caller)
    \/ \E ok \in BOOLEAN, code \in ErrorCodes : GetClientDone(Caller, ok, code)
    \/ \E ok \in BOOLEAN, code \in ErrorCodes : StatementDone(Caller, ok, code)
    \/ \E ok \in BOOLEAN, code \in ErrorCodes : RollbackDone(Caller, ok, code)
    \/ BackoffDone(Caller)

SpecCall == ExecOnlyInit /\ [][CallNext]_vars

\* the timer of shutdown() fires as long as shutdown() sleeps on it
ShutdownFairness ==
    WF_vars(\E d \in 1 .. Late(Seconds(MaxTimeout)) : ShutdownWake(d))

\* shutdown() reads activeRequests and the clock only: the clients are taken to
\* be pool clients
ShutdownInit == ExecInitConcurrent /\ xpooled

SpecShutdown == ShutdownInit /\ [][ExecNext]_vars /\ ShutdownFairness

(***************************************************************************)
(* Pool.shutdown() of extensions/pool.class.ts.  queryModule is the        *)
(* executor above; transactionModule.shutdown() and disconnect() settle    *)
(* either way.                                                             *)
(***************************************************************************)
\* shutdown() is called: queryModule.shutdown(onLog) runs up to its first
\* suspension, with the default timeoutMs of 30 seconds; d as in ShutdownCall
PoolShutdownCall(d) ==
    /\ poolpc = "idle"
    /\ spc = "idle"
    /\ d <= Late(Seconds(DefaultTimeout))
    /\ activeRequests = 0 => d = 0
    /\ isShuttingDown' = TRUE
    /\ timeoutMs' = Seconds(DefaultTimeout)
    /\ elapsed' = d
    /\ poll(d, Seconds(DefaultTimeout))
    /\ poolpc' = "queryModule"
    /\ poolRan' = <<"queryModule">>
    /\ UNCHANGED <<xkind, xpooled, maxAttemptsOption, batch, activeRequests, xpc,
                   attempt, client, inTransaction, issued, results, lastError,
                   outcome, held, reported>>
    /\ UNCHANGED <<gateVars, supVars, notifOwnVars, handlerVars, auxButPool>>

\* `await this.queryModule.shutdown(...)` settles; when it resolved,
\* transactionModule.shutdown() is called and sets its isShuttingDown
PoolQueryModuleDone ==
    /\ poolpc = "queryModule"
    /\ spc \in {"returned", "timedout"}
    /\ IF spc = "returned"
       THEN /\ poolpc' = "transactionModule"
            /\ poolRan' = Append(poolRan, "transactionModule")
            /\ transactionModule' = [transactionModule EXCEPT !.isShuttingDown = TRUE]
       ELSE /\ poolpc' = "threw"
            /\ UNCHANGED <<poolRan, transactionModule>>
    /\ UNCHANGED <<gateVars, supVars, execVars, notifOwnVars, handlerVars,
                   auxButPoolAndTransactionModule>>

\* `await this.transactionModule.shutdown(...)` settles: it resolves when no
\* transaction is in progress and rejects, on its timeout, when one still is
PoolTransactionModuleDone(ok) ==
    /\ poolpc = "transactionModule"
    /\ ok <=> transactionModule.activeRequests = 0
    /\ IF ok
       THEN /\ poolpc' = "disconnect"
            /\ poolRan' = Append(poolRan, "disconnect")
       ELSE /\ poolpc' = "threw"
            /\ UNCHANGED poolRan
    /\ UNCHANGED <<gateVars, supVars, execVars, notifOwnVars, handlerVars, auxButPool>>

\* `await this.disconnect()` settles
PoolDisconnectDone(ok) ==
    /\ poolpc = "disconnect"
    /\ poolpc' = IF ok THEN "returned" ELSE "threw"
    /\ UNCHANGED poolRan
    /\ UNCHANGED <<gateVars, supVars, execVars, notifOwnVars, handlerVars, auxButPool>>

PoolNext ==
    \/ \E r \in Requests : WithRetryCall(r)
    \/ \E r \in Requests, ok \in BOOLEAN, code \in ErrorCodes : GetClientDone(r, ok, code)
    \/ \E r \in Requests, ok \in BOOLEAN, code \in ErrorCodes : StatementDone(r, ok, code)
    \/ \E r \in Requests : BackoffDone(r)
    \/ \E d \in 1 .. Late(Seconds(DefaultTimeout)) : ShutdownWake(d)
    \/ \E d \in 0 .. Late(Seconds(DefaultTimeout)) : PoolShutdownCall(d)
    \/ PoolQueryModuleDone
    \/ \E ok \in BOOLEAN : PoolTransactionModuleDone(ok)
    \/ \E ok \in BOOLEAN : PoolDisconnectDone(ok)

\* a Pool whose queryModule takes calls of query()
PoolInit == ShutdownInit /\ xkind = "query"

SpecPool == PoolInit /\ [][PoolNext]_vars

\* Pool.transaction(): transactionWithRetry() up to its first suspension.  It
\* throws when the module is shutting down, else it counts the call in
\* activeRequests and starts its first attempt
PoolTransactionCall ==
    /\ transactionModule.activeRequests < MaxRequests
    /\ IF transactionModule.isShuttingDown
       THEN UNCHANGED transactionModule
       ELSE transactionModule' = [transactionModule EXCEPT !.activeRequests = @ + 1]
    /\ UNCHANGED <<gateVars, supVars, execVars, notifOwnVars, handlerVars,
                   auxButTransactionModule>>

\* a transactionWithRetry() call settles: the outer finally block
PoolTransactionSettles ==
    /\ transactionModule.activeRequests > 0
    /\ transactionModule' = [transactionModule EXCEPT !.activeRequests = @ - 1]
    /\ UNCHANGED <<gateVars, supVars, execVars, notifOwnVars, handlerVars,
                   auxButTransactionModule>>

\* a Pool facade under calls of query(), transaction() and shutdown()
PoolFacadeNext ==
    \/ PoolNext
    \/ PoolTransactionCall
    \/ PoolTransactionSettles

SpecPoolFacade == PoolInit /\ [][PoolFacadeNext]_vars

(***************************************************************************)
(* Claims about queryWithRetry() and transactionWithRetry()                *)
(***************************************************************************)

\* positions of a call inside an attempt
AttemptPcs == {"getClient", "query", "BEGIN", "statement", "COMMIT", "ROLLBACK"}

\* the step decides what follows the failure of the attempt of request r
Decides(r) ==
    /\ xpc[r] \in AttemptPcs
    /\ \/ xpc'[r] = "backoff"
       \/ xpc'[r] = "done" /\ outcome'[r].kind = "error"

\* the error the decision of the step is taken on
Decided(r) == IF xpc'[r] = "backoff" THEN lastError'[r] ELSE outcome'[r].err

\* C12: maxAttempts is the option floored to an integer and at least 1; an
\* attempt that failed, in getClient or in a driver call, is followed by the
\* backoff sleep and attempt k+1 exactly when its error is retriable and
\* k < maxAttempts; otherwise the error of attempt k is thrown by the same step,
\* without sleep; with maxAttempts = 1 no call ever sleeps or starts attempt 2
C12_RetryCondition ==
    /\ [](/\ maxAttempts >= 1
          /\ maxAttemptsOption >= 2 =>
                /\ 2 * maxAttempts <= maxAttemptsOption
                /\ maxAttemptsOption < 2 * maxAttempts + 2
          /\ maxAttemptsOption < 2 => maxAttempts = 1
          /\ \A r \in Requests :
                /\ attempt[r] <= maxAttempts
                /\ maxAttempts = 1 => xpc[r] # "backoff")
    /\ [][\A r \in Requests :
            /\ Decides(r) =>
                  /\ IF xpc[r] = "ROLLBACK"
                     THEN Decided(r) = lastError[r]
                     ELSE Decided(r).src = xpc[r] /\ Decided(r).code \in ErrorCodes
                  /\ xpc'[r] = "backoff" <=>
                        isRetriableError(Decided(r)) /\ attempt[r] < maxAttempts
            /\ (attempt[r] >= 1 /\ attempt'[r] > attempt[r]) =>
                  /\ xpc[r] = "backoff"
                  /\ attempt'[r] = attempt[r] + 1
                  /\ xpc'[r] = "getClient"
            /\ xpc[r] = "backoff" => xpc'[r] \in {"backoff", "getClient"}]_vars

\* a call whose first attempt failed on a retriable error is in its second, under
\* the largest maxAttempts option
C12_Witness ==
    \E r \in Requests :
        /\ attempt[r] = 2
        /\ xpc[r] \in AttemptPcs
        /\ isRetriableError(lastError[r])
        /\ maxAttemptsOption = MaxOptionHalves

\* calls admitted and not yet settled
InProgress == {r \in Requests : xpc[r] \in AttemptPcs \cup {"backoff"}}

\* C13 (I2): activeRequests is never negative and is the number of admitted
\* calls that have neither returned nor thrown, so 0 when none is in progress;
\* a call rejected because the module is shutting down leaves it as it is
C13_ActiveRequestsCount ==
    /\ [](activeRequests >= 0 /\ activeRequests = Cardinality(InProgress))
    /\ [][\A r \in Requests :
            (xpc[r] = "idle" /\ xpc'[r] # "idle" /\ isShuttingDown) =>
                /\ activeRequests' = activeRequests
                /\ xpc'[r] = "done"]_vars

\* every call modelled is in progress at once, one of them in its second attempt
C13_Witness ==
    /\ activeRequests = MaxRequests
    /\ \E r \in Requests : attempt[r] = 2

\* what a call owns while it runs
CallState(r) ==
    <<xpc[r], attempt[r], client[r], inTransaction[r], issued[r], results[r],
      lastError[r], outcome[r], held[r], reported[r]>>

\* C14: a call made once shutdown() has been invoked fails in the same step
\* with the shutting-down error and has asked for no client; shutdown() and its
\* polling touch no call that was admitted before, and these calls go on,
\* retries included, as the witness shows
C14_ShutdownRejectsNewCalls ==
    [][/\ \A r \in Requests :
            (xpc[r] = "idle" /\ xpc'[r] # "idle" /\ spc # "idle") =>
                /\ xpc'[r] = "done"
                /\ outcome'[r] = [kind |-> "error", err |-> ErrModuleShuttingDown,
                                  rows |-> << >>]
                /\ client'[r] = 0 /\ held'[r] = 0 /\ issued'[r] = << >>
       /\ (spc' # spc \/ elapsed' # elapsed) =>
            \A r \in Requests : CallState(r)' = CallState(r)]_vars

\* shutdown() slept at least once, so a call was in progress when it was
\* invoked; a later call was rejected; the call in progress returned rows
\* and shutdown() returned
C14_Witness ==
    /\ spc = "returned"
    /\ elapsed >= 1
    /\ \E r, q \in Requests :
          /\ outcome[q].err = ErrModuleShuttingDown
          /\ outcome[r].kind = "value"
          /\ \A p \in Requests \ {r} : outcome[p].kind # "value"

\* the safety half of C15: shutdown() returns only when activeRequests is 0, and
\* activeRequests stays 0 from then on; a poll that finds activeRequests
\* positive and the elapsed time above timeoutMs throws the timeout error, and
\* the timeout error is thrown in no other case
ShutdownExits ==
    /\ [](spc = "returned" => activeRequests = 0)
    /\ [][/\ (spc = "sleeping" /\ spc' # "sleeping") =>
                spc' \in {"returned", "timedout"}
          /\ (spc \in {"idle", "sleeping"} /\ spc' # spc) =>
                /\ spc' = "returned" <=> activeRequests = 0
                /\ spc' = "timedout" <=>
                      (activeRequests > 0 /\ exceeds(elapsed', timeoutMs'))
          /\ spc \in {"returned", "timedout"} => spc' = spc]_vars

\* C15: shutdown(onLog, timeoutMs) with a finite timeoutMs terminates: it
\* returns or throws; it returns only when activeRequests is 0, and
\* activeRequests stays 0 from then on; a poll that finds activeRequests
\* positive and the elapsed time above timeoutMs throws the timeout error, and
\* the timeout error is thrown in no other case
C15_ShutdownTerminates ==
    /\ (spc = "sleeping" /\ timeoutMs.kind = "number") ~>
            (spc \in {"returned", "timedout"})
    /\ ShutdownExits

\* C15 as stated, for every timeoutMs: shutdown() always terminates
C15_ShutdownAlwaysTerminates ==
    /\ (spc = "sleeping") ~> (spc \in {"returned", "timedout"})
    /\ ShutdownExits

\* shutdown() threw the timeout error while a call was still in progress, at
\* the first reading above the largest finite timeoutMs
C15_Witness ==
    /\ spc = "timedout"
    /\ timeoutMs = Seconds(MaxTimeout)
    /\ elapsed = Late(timeoutMs)
    /\ activeRequests > 0

\* C16: with pool clients, a call holds at most one client, the one of its
\* attempt, and none while it waits for getClient() or once it has settled: the
\* client of an attempt is released once, by the step that returns, throws or
\* starts the next attempt, and an attempt whose getClient() failed releases
\* nothing
C16_ReleasedExactlyOnce ==
    /\ [](xpooled =>
            \A r \in Requests :
                /\ held[r] \in {0, 1}
                /\ held[r] = 1 <=> client[r] # 0
                /\ xpc[r] \in {"idle", "getClient", "done"} => held[r] = 0)
    /\ [][xpooled =>
            \A r \in Requests :
                /\ (xpc[r] = "getClient" /\ xpc'[r] \in {"backoff", "done"}) =>
                      held'[r] = held[r]
                /\ (xpc[r] \in AttemptPcs \ {"getClient"} /\ xpc'[r] = "done") =>
                      held'[r] = held[r] - 1
                /\ (xpc[r] = "backoff" /\ xpc'[r] # "backoff") =>
                      held'[r] = IF client[r] # 0 THEN held[r] - 1 ELSE held[r]
                /\ (xpc[r] \in AttemptPcs \ {"getClient"}
                        /\ xpc'[r] \in AttemptPcs \cup {"backoff"}) =>
                      held'[r] = held[r]]_vars

\* the second attempt of a call holds a pool client after the first, which
\* failed in a statement, gave its own back
C16_Witness ==
    /\ xpooled
    /\ \E r \in Requests :
          /\ attempt[r] = 2
          /\ held[r] = 1
          /\ lastError[r].src \in {"query", "BEGIN", "statement", "COMMIT"}

\* how often the statement was passed to client.query() in the sequence
Issued(seq, statement) ==
    Cardinality({i \in 1 .. Len(seq) : seq[i].stmt = statement})

\* the step ends the attempt of request r, an attempt that had a client
EndsAttempt(r) ==
    /\ xkind = "transaction"
    /\ client[r] # 0
    /\ xpc[r] \in AttemptPcs
    /\ xpc'[r] \in {"backoff", "done"}

\* C17 (I4): when a transaction attempt that had a client ends, exactly one of
\* COMMIT and ROLLBACK has been issued on that client, never both and never
\* neither, whether BEGIN, a batch statement or COMMIT failed or all succeeded
C17_CommitXorRollback ==
    [][\A r \in Requests :
          EndsAttempt(r) =>
              /\ Issued(issued[r], "COMMIT") + Issued(issued[r], "ROLLBACK") = 1
              /\ \A i \in 1 .. Len(issued[r]) : issued[r][i].on = client[r]]_vars

\* what an attempt on client c issues when nothing fails
Bracketed(c) ==
    <<[stmt |-> "BEGIN", on |-> c, idx |-> 0]>>
        \o [i \in 1 .. batch |-> [stmt |-> "statement", on |-> c, idx |-> i]]
        \o <<[stmt |-> "COMMIT", on |-> c, idx |-> 0]>>

\* the results of the first n statements of the batch, obtained in attempt k
ResultsOf(n, k) == [i \in 1 .. n |-> [stmt |-> i, attempt |-> k]]

\* seq without the ROLLBACK it may end with
BeforeRollback(seq) ==
    IF seq # << >> /\ seq[Len(seq)].stmt = "ROLLBACK"
    THEN SubSeq(seq, 1, Len(seq) - 1)
    ELSE seq

\* C18: what a transaction attempt has issued, leaving a final ROLLBACK aside,
\* is a beginning of BEGIN, the batch in input order, COMMIT, all of it on the
\* one client of the attempt; a statement is issued only when all before it
\* have succeeded in this attempt; the list returned has one result per
\* statement, in input order, all obtained in the attempt that returns
C18_StatementsInOrder ==
    /\ [](\A r \in Requests :
            (xkind = "transaction" /\ xpc[r] \in AttemptPcs) =>
                LET sent == BeforeRollback(issued[r])
                IN  /\ Len(sent) <= batch + 2
                    /\ sent = SubSeq(Bracketed(client[r]), 1, Len(sent))
                    /\ xpc[r] # "getClient" => sent # << >> /\ client[r] # 0
                    /\ results[r] = ResultsOf(Len(results[r]), attempt[r])
                    /\ Len(sent) <= Len(results[r]) + 2
                    /\ xpc[r] = "BEGIN" => sent = <<Bracketed(client[r])[1]>>
                    /\ xpc[r] = "statement" => Len(sent) = Len(results[r]) + 2
                    /\ xpc[r] = "COMMIT" =>
                          Len(sent) = batch + 2 /\ Len(results[r]) = batch)
    /\ [][\A r \in Requests :
            (xkind = "transaction" /\ xpc'[r] = "done"
                /\ outcome'[r].kind = "value" /\ xpc[r] # "done") =>
                /\ issued[r] = Bracketed(client[r])
                /\ outcome'[r].rows = ResultsOf(batch, attempt[r])]_vars

\* a transaction with the longest batch returned the results of its second
\* attempt
C18_Witness ==
    /\ xkind = "transaction"
    /\ batch = MaxStatements
    /\ \E r \in Requests :
          /\ outcome[r].kind = "value"
          /\ outcome[r].rows = ResultsOf(MaxStatements, 2)

\* C19: a statement or COMMIT that fails after BEGIN succeeded is followed, in
\* the same step, by ROLLBACK on the client of the attempt, which is still
\* held; whether ROLLBACK succeeds or fails, the call then decides on the error
\* caught before it, and throws that error or retries on it; a failed ROLLBACK
\* is reported to onError and nothing else
C19_RollbackKeepsOriginal ==
    /\ [](\A r \in Requests :
            xpc[r] = "ROLLBACK" =>
                /\ client[r] # 0
                /\ issued[r][Len(issued[r])] =
                      [stmt |-> "ROLLBACK", on |-> client[r], idx |-> 0]
                /\ xpooled => held[r] = 1
                /\ lastError[r].src \in {"statement", "COMMIT"})
    /\ [][\A r \in Requests :
            /\ (xkind = "transaction" /\ xpc[r] \in {"statement", "COMMIT"}
                    /\ xpc'[r] # xpc[r]) =>
                  \/ xpc'[r] \in {"statement", "COMMIT"}
                  \/ xpc'[r] = "done" /\ outcome'[r].kind = "value"
                  \/ /\ xpc'[r] = "ROLLBACK"
                     /\ lastError'[r].src = xpc[r]
                     /\ client'[r] = client[r]
                     /\ held'[r] = held[r]
            /\ (xpc[r] = "ROLLBACK" /\ xpc'[r] # "ROLLBACK") =>
                  /\ Decides(r)
                  /\ Decided(r) = lastError[r]
                  /\ xpc'[r] = "backoff" <=>
                        isRetriableError(lastError[r]) /\ attempt[r] < maxAttempts
                  /\ xpc'[r] = "backoff" =>
                        /\ client'[r] = client[r] /\ held'[r] = held[r]
                        /\ reported'[r] \in {{"transient"}, {"transient", "rollback"}}]_vars

\* a ROLLBACK failed and was reported, and the call sleeps before a retry on
\* the error of the statement that failed
C19_Witness ==
    \E r \in Requests :
        /\ xpc[r] = "backoff"
        /\ "rollback" \in reported[r]
        /\ lastError[r].src = "statement"
        /\ isRetriableError(lastError[r])

(***************************************************************************)
(* NotificationClient: listen(), unlisten() and the part of shutdown() and *)
(* disconnect() that they read.  getClient() and the driver are the       *)
(* environment: each await settles with success or failure.               *)
(***************************************************************************)
ErrClientShuttingDown == "Client is shutting down"
ErrAlreadyListening == "Already listening to channel"
ErrNotListening == "Not listening to channel"
ErrDriver == "error of getClient() or of the driver"

\* the entries of the Map after a step that took it from `before` to `after`:
\* delete() and clear() empty the slot of an entry, set() of a new key appends
entriesAfter(slots, before, after) ==
    LET kept == [i \in 1 .. Len(slots) |->
                    IF slots[i] # "empty" /\ after[slots[i]] = 0
                    THEN "empty" ELSE slots[i]]
        added == {c \in Channels : before[c] = 0 /\ after[c] # 0}
    IN  IF added = {} THEN kept ELSE Append(kept, CHOOSE c \in added : TRUE)

\* this.channels.set(channel, events)
channelsSet(map, channel, events) == [map EXCEPT ![channel] = events]

\* a delete that leaves the mapping in place
channelsDelete_keeps(map, channel) == map

\* this.channels.delete(channel)
channelsDelete(map, channel) == [map EXCEPT ![channel] = 0]

\* listen(channel, events) up to its first await; l names the call and its
\* events object
ListenCall(l, channel) ==
    /\ lpc[l] = "idle"
    /\ \A k \in Listens : k < l => lpc[k] # "idle"
    /\ lchannel' = [lchannel EXCEPT ![l] = channel]
    /\ IF notifShuttingDown
       THEN /\ lresult' = [lresult EXCEPT ![l] = ErrClientShuttingDown]
            /\ lpc' = [lpc EXCEPT ![l] = "done"]
            /\ UNCHANGED channels
       ELSE IF channels[channel] # 0
       THEN /\ lresult' = [lresult EXCEPT ![l] = ErrAlreadyListening]
            /\ lpc' = [lpc EXCEPT ![l] = "done"]
            /\ UNCHANGED channels
       ELSE /\ channels' = channelsSet(channels, channel, l)
            /\ lpc' = [lpc EXCEPT ![l] = "getClient"]
            /\ UNCHANGED lresult
    /\ UNCHANGED <<notifShuttingDown, notifCleared, upc, uchannel, uevents,
                   udisconnects>>
    /\ entries' = entriesAfter(entries, channels, channels')
    /\ UNCHANGED <<gateVars, supVars, execVars, handlerVars, auxVars>>

\* the catch block of listen(): this.channels.delete(channel); throw error
ListenFailed(l) ==
    /\ channels' = channelsDelete(channels, lchannel[l])
    /\ lresult' = [lresult EXCEPT ![l] = ErrDriver]
    /\ lpc' = [lpc EXCEPT ![l] = "done"]

\* `await this.getClient()` of listen() settles
ListenGetClientDone(l, ok) ==
    /\ lpc[l] = "getClient"
    /\ IF ok
       THEN /\ lpc' = [lpc EXCEPT ![l] = "LISTEN"]
            /\ UNCHANGED <<channels, lresult>>
       ELSE ListenFailed(l)
    /\ UNCHANGED <<notifShuttingDown, notifCleared, lchannel, upc, uchannel, uevents,
                   udisconnects>>
    /\ entries' = entriesAfter(entries, channels, channels')
    /\ UNCHANGED <<gateVars, supVars, execVars, handlerVars, auxVars>>

\* `await client.query('LISTEN ...')` settles; on success events.onConnect()
\* runs and returns (connected) or throws
ListenQueryDone(l, ok, connected) ==
    /\ lpc[l] = "LISTEN"
    /\ IF ok /\ connected
       THEN /\ lresult' = [lresult EXCEPT ![l] = "ok"]
            /\ lpc' = [lpc EXCEPT ![l] = "done"]
            /\ UNCHANGED channels
       ELSE ListenFailed(l)
    /\ UNCHANGED <<notifShuttingDown, notifCleared, lchannel, upc, uchannel, uevents,
                   udisconnects>>
    /\ entries' = entriesAfter(entries, channels, channels')
    /\ UNCHANGED <<gateVars, supVars, execVars, handlerVars, auxVars>>

\* unlisten(channel) up to its first await
UnlistenCall(u, channel) ==
    /\ upc[u] = "idle"
    /\ \A k \in Unlistens : k < u => upc[k] # "idle"
    /\ uchannel' = [uchannel EXCEPT ![u] = channel]
    /\ uevents' = [uevents EXCEPT ![u] = channels[channel]]
    /\ IF channels[channel] = 0
       THEN /\ upc' = [upc EXCEPT ![u] = "threw"]
            /\ UNCHANGED channels
       ELSE /\ channels' = channelsDelete(channels, channel)
            /\ upc' = [upc EXCEPT ![u] = "getClient"]
    /\ UNCHANGED <<notifShuttingDown, notifCleared, lpc, lchannel, lresult,
                   udisconnects>>
    /\ entries' = entriesAfter(entries, channels, channels')
    /\ UNCHANGED <<gateVars, supVars, execVars, handlerVars, auxVars>>

\* `await this.getClient()` of unlisten() settles; a failure is logged
UnlistenGetClientDone(u, ok) ==
    /\ upc[u] = "getClient"
    /\ upc' = [upc EXCEPT ![u] = IF ok THEN "UNLISTEN" ELSE "returned"]
    /\ UNCHANGED <<channels, notifShuttingDown, notifCleared, lpc, lchannel,
                   lresult, uchannel, uevents, udisconnects>>
    /\ entries' = entriesAfter(entries, channels, channels')
    /\ UNCHANGED <<gateVars, supVars, execVars, handlerVars, auxVars>>

\* `await client.query('UNLISTEN ...')` settles; on success
\* events.onDisconnect() is called; a failure, also of that call, is logged
UnlistenQueryDone(u, ok) ==
    /\ upc[u] = "UNLISTEN"
    /\ upc' = [upc EXCEPT ![u] = "returned"]
    /\ udisconnects' = [udisconnects EXCEPT ![u] = IF ok THEN @ + 1 ELSE @]
    /\ UNCHANGED <<channels, notifShuttingDown, notifCleared, lpc, lchannel,
                   lresult, uchannel, uevents>>
    /\ entries' = entriesAfter(entries, channels, channels')
    /\ UNCHANGED <<gateVars, supVars, execVars, handlerVars, auxVars>>

\* shutdown() of NotificationClient up to its first await
NotificationShutdown ==
    /\ ~notifShuttingDown
    /\ notifShuttingDown' = TRUE
    /\ UNCHANGED <<channels, notifCleared, lpc, lchannel, lresult, upc, uchannel,
                   uevents, udisconnects>>
    /\ entries' = entriesAfter(entries, channels, channels')
    /\ UNCHANGED <<gateVars, supVars, execVars, handlerVars, auxVars>>

\* disconnect() of NotificationClient, called by shutdown() or by the host:
\* `await super.disconnect()` resolved and this.channels.clear() runs.  The
\* call itself changes no field of NotificationClient
NotificationDisconnected ==
    /\ notifCleared' = TRUE
    /\ channels' = [c \in Channels |-> 0]
    /\ UNCHANGED <<notifShuttingDown, lpc, lchannel, lresult, upc, uchannel, uevents,
                   udisconnects>>
    /\ entries' = entriesAfter(entries, channels, channels')
    /\ UNCHANGED <<gateVars, supVars, execVars, handlerVars, auxVars>>

NotifNext ==
    \/ \E l \in Listens, c \in Channels : ListenCall(l, c)
    \/ \E l \in Listens, ok \in BOOLEAN : ListenGetClientDone(l, ok)
    \/ \E l \in Listens, ok, connected \in BOOLEAN : ListenQueryDone(l, ok, connected)
    \/ \E u \in Unlistens, c \in Channels : UnlistenCall(u, c)
    \/ \E u \in Unlistens, ok \in BOOLEAN : UnlistenGetClientDone(u, ok)
    \/ \E u \in Unlistens, ok \in BOOLEAN : UnlistenQueryDone(u, ok)
    \/ NotificationShutdown
    \/ NotificationDisconnected

NotifOnlyInit == GateInit /\ SupervisorAbsent /\ ExecutorAbsent /\ NotificationInit

SpecNotif == NotifOnlyInit /\ [][NotifNext]_vars

\* ---- shutdown(), whole

\* shutdown() of NotificationClient is called; s counts the calls.  The first
\* call sets the flag and awaits queryModule.shutdown(); a later one warns
\* 'client already shutdown' and returns
NotificationShutdownCall(s) ==
    /\ notifShutdowns[s].pc = "idle"
    /\ \A b \in Shutdowns : b < s => notifShutdowns[b].pc # "idle"
    /\ IF notifShuttingDown
       THEN /\ notifShutdowns' = [notifShutdowns EXCEPT ![s].pc = "returned"]
            /\ UNCHANGED notifShuttingDown
       ELSE /\ notifShuttingDown' = TRUE
            /\ notifShutdowns' = [notifShutdowns EXCEPT ![s].pc = "queryModule"]
    /\ UNCHANGED <<channels, notifCleared, lpc, lchannel, lresult, upc, uchannel,
                   uevents, udisconnects, entries>>
    /\ UNCHANGED <<gateVars, supVars, execVars, handlerVars, auxButNotifShutdowns>>

\* `await this.queryModule.shutdown(...)` of call s settles; a rejection is
\* pushed to shutdownErrors.  this.disconnect() is called and awaits
\* super.disconnect()
NotificationQueryModuleDone(s, ok) ==
    /\ notifShutdowns[s].pc = "queryModule"
    /\ notifShutdowns' = [notifShutdowns EXCEPT
            ![s].pc = "disconnect",
            ![s].errors = IF ok THEN @ ELSE @ + 1]
    /\ UNCHANGED <<channels, notifShuttingDown, notifCleared, lpc, lchannel, lresult,
                   upc, uchannel, uevents, udisconnects, entries>>
    /\ UNCHANGED <<gateVars, supVars, execVars, handlerVars, auxButNotifShutdowns>>

\* `await super.disconnect()` of the this.disconnect() that call s awaits
\* settles: when it resolved, this.channels.clear() runs and disconnect()
\* resolves; a rejection leaves disconnect() before the clear.  shutdown()
\* has not resumed yet
NotificationDisconnectSettled(s, ok) ==
    /\ notifShutdowns[s].pc = "disconnect"
    /\ notifShutdowns' = [notifShutdowns EXCEPT
            ![s].pc = IF ok THEN "disconnected" ELSE "disconnectFailed"]
    /\ IF ok
       THEN /\ channels' = [c \in Channels |-> 0]
            /\ notifCleared' = TRUE
       ELSE UNCHANGED <<channels, notifCleared>>
    /\ UNCHANGED <<notifShuttingDown, lpc, lchannel, lresult, upc, uchannel, uevents,
                   udisconnects>>
    /\ entries' = entriesAfter(entries, channels, channels')
    /\ UNCHANGED <<gateVars, supVars, execVars, handlerVars, auxButNotifShutdowns>>

\* shutdown() of call s resumes after `await this.disconnect()`: a rejection
\* is pushed to shutdownErrors; shutdown() throws when shutdownErrors is not
\* empty, else it returns
NotificationDisconnectDone(s) ==
    /\ notifShutdowns[s].pc \in {"disconnected", "disconnectFailed"}
    /\ LET errors == IF notifShutdowns[s].pc = "disconnected"
                     THEN notifShutdowns[s].errors
                     ELSE notifShutdowns[s].errors + 1
       IN  notifShutdowns' = [notifShutdowns EXCEPT
                ![s].pc = IF errors > 0 THEN "threw" ELSE "returned",
                ![s].errors = errors]
    /\ UNCHANGED <<channels, notifShuttingDown, notifCleared, lpc, lchannel, lresult,
                   upc, uchannel, uevents, udisconnects, entries>>
    /\ UNCHANGED <<gateVars, supVars, execVars, handlerVars, auxButNotifShutdowns>>

\* listen() calls, shutdown() calls and disconnect() calls of one
\* NotificationClient
NotificationShutdownNext ==
    \/ \E l \in Listens, c \in Channels : ListenCall(l, c)
    \/ \E l \in Listens, ok \in BOOLEAN : ListenGetClientDone(l, ok)
    \/ \E l \in Listens, ok, connected \in BOOLEAN : ListenQueryDone(l, ok, connected)
    \/ \E s \in Shutdowns : NotificationShutdownCall(s)
    \/ \E s \in Shutdowns, ok \in BOOLEAN : NotificationQueryModuleDone(s, ok)
    \/ \E s \in Shutdowns, ok \in BOOLEAN : NotificationDisconnectSettled(s, ok)
    \/ \E s \in Shutdowns : NotificationDisconnectDone(s)
    \/ NotificationDisconnected

SpecNotificationShutdown == NotifOnlyInit /\ [][NotificationShutdownNext]_vars

\* ---- handleReconnect()

\* the slot a Map iterator standing at slot i comes to next, 0 at the end
nextSlot(slots, i) ==
    LET later == {j \in (i + 1) .. Len(slots) : slots[j] # "empty"}
    IN  IF later = {} THEN 0 ELSE CHOOSE j \in later : \A m \in later : j <= m

\* the next turn of `for (const [channel, events] of this.channels)` of call k,
\* up to `await client.query('LISTEN ...')`, or the end of the loop
HandlerTurn(k) ==
    LET j == nextSlot(entries, hidx[k])
    IN  IF j = 0
        THEN /\ hpc' = [hpc EXCEPT ![k] = "done"]
             /\ hcur' = [hcur EXCEPT ![k] = NoTurn]
             /\ UNCHANGED <<hidx, hissued>>
        ELSE /\ hpc' = [hpc EXCEPT ![k] = "LISTEN"]
             /\ hidx' = [hidx EXCEPT ![k] = j]
             /\ hcur' = [hcur EXCEPT ![k] = [channel |-> entries[j],
                                             events |-> channels[entries[j]]]]
             /\ hissued' = [hissued EXCEPT ![k] = @ \cup {entries[j]}]

\* the outer catch block of handleReconnect(): the error is logged
HandlerAbort(k) ==
    /\ hpc' = [hpc EXCEPT ![k] = "done"]
    /\ hcur' = [hcur EXCEPT ![k] = NoTurn]
    /\ UNCHANGED <<hidx, hissued>>

\* the supervisor emits `reconnect`: handleReconnect() runs up to its first await
ReconnectEvent(k) ==
    /\ hpc[k] = "idle"
    /\ \A m \in Reconnects : m < k => hpc[m] # "idle"
    /\ hstart' = [hstart EXCEPT ![k] =
            [c \in Channels |->
                IF channels[c] # 0 /\ lresult[channels[c]] = "ok"
                THEN channels[c] ELSE 0]]
    /\ hwaiting' = [hwaiting EXCEPT ![k] = {l \in Listens : lpc[l] = "getClient"}]
    /\ hpc' = [hpc EXCEPT ![k] =
            IF \A c \in Channels : channels[c] = 0 THEN "done" ELSE "getClient"]
    /\ UNCHANGED <<hidx, hcur, hissued, hconnected, herrored>>
    /\ UNCHANGED <<channels, notifShuttingDown, notifCleared, lpc, lchannel, lresult,
                   upc, uchannel, uevents, udisconnects, entries>>
    /\ UNCHANGED <<gateVars, supVars, execVars, auxVars>>

\* `await this.getClient()` of handleReconnect() settles
HandlerGetClientDone(k, ok) ==
    /\ hpc[k] = "getClient"
    /\ IF ok THEN HandlerTurn(k) ELSE HandlerAbort(k)
    /\ UNCHANGED <<hstart, hwaiting, hconnected, herrored>>
    /\ UNCHANGED <<channels, notifShuttingDown, notifCleared, lpc, lchannel, lresult,
                   upc, uchannel, uevents, udisconnects, entries>>
    /\ UNCHANGED <<gateVars, supVars, execVars, auxVars>>

\* `await client.query('LISTEN ...')` of handleReconnect() settles: on success
\* events.onConnect() is called and returns (connectOk) or throws; a failure
\* of either is logged and events.onError() is called and returns (errorOk)
\* or throws
HandlerListenDone(k, ok, connectOk, errorOk) ==
    /\ hpc[k] = "LISTEN"
    /\ LET caught == ~ok \/ ~connectOk
       IN  /\ hconnected' = [hconnected EXCEPT ![k] =
                   IF ok THEN @ \cup {hcur[k].events} ELSE @]
           /\ herrored' = [herrored EXCEPT ![k] =
                   IF caught THEN @ \cup {hcur[k].events} ELSE @]
           /\ IF caught /\ ~errorOk THEN HandlerAbort(k) ELSE HandlerTurn(k)
    /\ UNCHANGED <<hstart, hwaiting>>
    /\ UNCHANGED <<channels, notifShuttingDown, notifCleared, lpc, lchannel, lresult,
                   upc, uchannel, uevents, udisconnects, entries>>
    /\ UNCHANGED <<gateVars, supVars, execVars, auxVars>>

ResubscribeNext ==
    \/ NotifNext
    \/ \E k \in Reconnects : ReconnectEvent(k)
    \/ \E k \in Reconnects, ok \in BOOLEAN : HandlerGetClientDone(k, ok)
    \/ \E k \in Reconnects, ok, connectOk, errorOk \in BOOLEAN :
            HandlerListenDone(k, ok, connectOk, errorOk)

SpecResubscribe == NotifOnlyInit /\ [][ResubscribeNext]_vars

(***************************************************************************)
(* handleNotification().  A payload is the sequence of its characters.     *)
(* JSONparse is JSON.parse on the texts of Payloads: white space around    *)
(* the value is skipped, and the value is a literal, an integer without    *)
(* leading zero, a string without escapes, or an empty object or array.    *)
(* A value is its type and its canonical text.                             *)
(***************************************************************************)
Whitespace == {" "}

DigitChars == {"0", "1", "2", "3", "4", "5", "6", "7", "8", "9"}

RECURSIVE trimStart(_)
trimStart(text) ==
    IF text # << >> /\ Head(text) \in Whitespace THEN trimStart(Tail(text)) ELSE text

RECURSIVE trimEnd(_)
trimEnd(text) ==
    IF text # << >> /\ text[Len(text)] \in Whitespace
    THEN trimEnd(SubSeq(text, 1, Len(text) - 1))
    ELSE text

isInteger(t) ==
    /\ t # << >>
    /\ \A i \in 1 .. Len(t) : t[i] \in DigitChars
    /\ Len(t) = 1 \/ t[1] # "0"

isNumber(t) == isInteger(t) \/ (Len(t) > 1 /\ t[1] = "-" /\ isInteger(Tail(t)))

isString(t) ==
    /\ Len(t) >= 2
    /\ t[1] = "\"" /\ t[Len(t)] = "\""
    /\ \A i \in 2 .. Len(t) - 1 : t[i] \notin {"\"", "\\"}

SyntaxError == [threw |-> TRUE, value |-> [type |-> "none", text |-> << >>]]

Parsed(type, text) == [threw |-> FALSE, value |-> [type |-> type, text |-> text]]

JSONparse(text) ==
    LET t == trimEnd(trimStart(text))
    IN  CASE t = <<"n", "u", "l", "l">> -> Parsed("null", << >>)
          [] t = <<"t", "r", "u", "e">> -> Parsed("boolean", t)
          [] t = <<"f", "a", "l", "s", "e">> -> Parsed("boolean", t)
          [] isNumber(t) -> Parsed("number", t)
          [] isString(t) -> Parsed("string", SubSeq(t, 2, Len(t) - 1))
          [] t = <<"{", "}">> -> Parsed("object", << >>)
          [] t = <<"[", "]">> -> Parsed("array", << >>)
          [] OTHER -> SyntaxError

\* the raw payload, as the string it is
RawString(text) == [type |-> "string", text |-> text]

\* `!notif.payload`: the payload is undefined or the empty string
noPayload(notif) == ~notif.defined \/ notif.payload = << >>

\* what handleNotification() has called when it returned at one of its
\* guards: nothing
dropped(chs, notif) ==
    [channel |-> notif.channel, payload |-> notif.payload, defined |-> notif.defined,
     events |-> chs[notif.channel], onData |-> << >>, threw |-> FALSE,
     onError |-> 0, onErrorOf |-> {}]

\* what handleNotification() has called when it got past its guards:
\* events.onData(data), which returned (dataOk) or threw, and in the catch
\* block events.onError(error) of the same `events`
delivered(chs, notif, data, dataOk) ==
    [channel |-> notif.channel, payload |-> notif.payload, defined |-> notif.defined,
     events |-> chs[notif.channel], onData |-> <<data>>, threw |-> ~dataOk,
     onError |-> IF dataOk THEN 0 ELSE 1,
     onErrorOf |-> IF dataOk THEN {} ELSE {chs[notif.channel]}]

\* handleNotification() that hands every payload to onData as it came
handleNotification_raw(chs, notif, dataOk) ==
    IF noPayload(notif) \/ chs[notif.channel] = 0
    THEN dropped(chs, notif)
    ELSE delivered(chs, notif, RawString(notif.payload), dataOk)

\* handleNotification() without its outer catch block: nobody hears of an
\* exception of onData
handleNotification_noCatch(chs, notif, dataOk) ==
    LET parsed == JSONparse(notif.payload)
        data == IF parsed.threw THEN RawString(notif.payload) ELSE parsed.value
    IN  IF noPayload(notif) \/ chs[notif.channel] = 0
        THEN dropped(chs, notif)
        ELSE [delivered(chs, notif, data, dataOk) EXCEPT !.onError = 0,
                                                         !.onErrorOf = {}]

\* handleNotification(notif) with `channels` as chs, where events.onData()
\* returns (dataOk) or throws: what it called
handleNotification(chs, notif, dataOk) ==
    LET parsed == JSONparse(notif.payload)
        data == IF parsed.threw THEN RawString(notif.payload) ELSE parsed.value
    IN  IF noPayload(notif) \/ chs[notif.channel] = 0
        THEN dropped(chs, notif)
        ELSE delivered(chs, notif, data, dataOk)

\* the payloads of the notifications that arrive
Payloads ==
    { << >>,
      <<"4", "2">>,
      <<" ", "7">>,
      <<"0", "7">>,
      <<"n", "u", "l", "l">>,
      <<"t", "r", "u", "e">>,
      <<"\"", "h", "i", "\"">>,
      <<"h", "i">>,
      <<"{", "}">>,
      <<"{", "x">> }

\* the supervisor emits `notification`: handleNotification() runs; a
\* notification without payload (~defined) has no text
NotificationEvent(channel, payload, defined, dataOk) ==
    /\ defined \/ payload = << >>
    /\ notified' = handleNotification(channels,
            [channel |-> channel, payload |-> payload, defined |-> defined], dataOk)
    /\ UNCHANGED <<notifOwnVars, handlerVars, auxButNotified>>
    /\ UNCHANGED <<gateVars, supVars, execVars>>

\* notifications arrive while listen() calls are made
DeliverNext ==
    \/ \E l \in Listens, c \in Channels : ListenCall(l, c)
    \/ \E l \in Listens, ok \in BOOLEAN : ListenGetClientDone(l, ok)
    \/ \E l \in Listens, ok, connected \in BOOLEAN : ListenQueryDone(l, ok, connected)
    \/ \E channel \in Channels, payload \in Payloads, defined, dataOk \in BOOLEAN :
            NotificationEvent(channel, payload, defined, dataOk)

SpecDeliver == NotifOnlyInit /\ [][DeliverNext]_vars

(***************************************************************************)
(* Claims about NotificationClient                                         *)
(***************************************************************************)

\* the step is the synchronous part of listen() call l
ListenCalled(l) == lpc[l] = "idle" /\ lpc'[l] # "idle"

\* the step is the synchronous part of unlisten() call u
UnlistenCalled(u) == upc[u] = "idle" /\ upc'[u] # "idle"

\* unlisten(c) leaves no mapping for c and touches no other channel, and a
\* channel without mapping gets one only from a listen() call on it
UnlistenLeavesNoMapping ==
    /\ \A u \in Unlistens :
          UnlistenCalled(u) =>
              /\ channels'[uchannel'[u]] = 0
              /\ \A c \in Channels \ {uchannel'[u]} : channels'[c] = channels[c]
              /\ upc'[u] = "threw" <=> channels[uchannel'[u]] = 0
    /\ \A c \in Channels :
          (channels[c] = 0 /\ channels'[c] # 0) =>
              \E l \in Listens :
                  ListenCalled(l) /\ lchannel'[l] = c /\ channels'[c] = l

\* C20 (L2), as the code has it: unlisten(c) leaves no mapping for c, so that a
\* later listen(c, .) on a client that is not shutting down is accepted; a
\* listen(c, .) while c is mapped, also to a listen() still in flight, on a
\* client that is not shutting down fails with the already-listening error; on
\* a client that is shutting down every listen() fails with the shutting-down
\* error; a listen() that fails in one of these ways leaves the mapping and
\* its callbacks as they are
C20_ListenUnlistenLaw ==
    [][/\ UnlistenLeavesNoMapping
       /\ \A l \in Listens :
            ListenCalled(l) =>
                IF notifShuttingDown
                THEN /\ lresult'[l] = ErrClientShuttingDown
                     /\ lpc'[l] = "done"
                     /\ channels' = channels
                ELSE IF channels[lchannel'[l]] # 0
                THEN /\ lresult'[l] = ErrAlreadyListening
                     /\ lpc'[l] = "done"
                     /\ channels' = channels
                ELSE /\ lpc'[l] = "getClient"
                     /\ channels' = channelsSet(channels, lchannel'[l], l)]_vars

\* a listen() on a channel whose first listen() is still in flight failed with
\* the already-listening error, and the channel is mapped to the first
C20_Witness ==
    \E l1, l2 \in Listens :
        /\ l1 # l2
        /\ lchannel[l1] = lchannel[l2]
        /\ lpc[l1] \in {"getClient", "LISTEN"}
        /\ channels[lchannel[l1]] = l1
        /\ lresult[l2] = ErrAlreadyListening
        /\ ~notifShuttingDown

\* C20 (L2), as stated: unlisten(c) leaves no mapping for c, and every
\* listen(c, .) while c is mapped fails with the already-listening error and
\* leaves the mapping as it is
C20_SecondListenAlreadyListening ==
    [][/\ UnlistenLeavesNoMapping
       /\ \A l \in Listens :
            (ListenCalled(l) /\ channels[lchannel'[l]] # 0) =>
                /\ lresult'[l] = ErrAlreadyListening
                /\ lpc'[l] = "done"
                /\ channels' = channels]_vars

\* the subscription of channel c that a successful listen() made before the
\* `reconnect` event of call k and that neither unlisten() nor shutdown() has
\* ended since, 0 if there is none
Surviving(k, c) ==
    IF hstart[k][c] # 0 /\ channels[c] = hstart[k][c] /\ ~notifShuttingDown
    THEN hstart[k][c] ELSE 0

\* C21 (I3): when the handleReconnect() of a `reconnect` event has run, it has
\* called onConnect of every subscription that a successful listen() made
\* before the event and that neither unlisten() nor shutdown() has ended
C21_OnConnectAfterReconnect ==
    \A k \in Reconnects :
        hpc[k] = "done" =>
            \A c \in Channels :
                Surviving(k, c) # 0 => Surviving(k, c) \in hconnected[k]

\* C22: a handleReconnect() that obtained its client and has run has issued
\* LISTEN for every channel mapped since before the event; a turn whose LISTEN
\* failed, or whose onConnect threw, calls onError of that subscription and is
\* followed by the turn of the next mapped channel, whatever the callbacks do
C22_ResubscribeContinues ==
    /\ [](\A k \in Reconnects :
            (hpc[k] = "done" /\ hissued[k] # {}) =>
                \A c \in Channels : Surviving(k, c) # 0 => c \in hissued[k])
    /\ [][\A k \in Reconnects :
            (hpc[k] = "LISTEN" /\ (hpc'[k] # hpc[k] \/ hidx'[k] # hidx[k])) =>
                /\ hcur[k].events \in hconnected'[k] \cup herrored'[k]
                /\ nextSlot(entries, hidx[k]) # 0 => hpc'[k] = "LISTEN"]_vars

\* C24: unlisten(c) of a mapped channel removes the mapping before it awaits
\* anything and never throws, and when it has returned it has called
\* onDisconnect of the subscription exactly once, whether getClient() and
\* UNLISTEN succeeded or failed
C24_UnlistenAlwaysDisconnects ==
    /\ [](\A u \in Unlistens :
            /\ upc[u] = "threw" => uevents[u] = 0
            /\ upc[u] = "returned" => udisconnects[u] = 1)
    /\ [][\A u \in Unlistens :
            (UnlistenCalled(u) /\ channels[uchannel'[u]] # 0) =>
                /\ channels'[uchannel'[u]] = 0
                /\ upc'[u] = "getClient"]_vars

\* C23 (L1): a notification on a mapped channel whose payload is present
\* makes exactly one onData() call, with the parsed value when the payload
\* is JSON and with the payload itself, as a string, when it is not
C23_OnDataParsedOrRaw ==
    (notified.events # 0 /\ notified.payload # << >>) =>
        /\ Len(notified.onData) = 1
        /\ notified.onData[1] =
               IF JSONparse(notified.payload).threw
               THEN RawString(notified.payload)
               ELSE JSONparse(notified.payload).value

\* a JSON payload arrived on a mapped channel and its value was delivered
C23_Witness ==
    /\ notified.events # 0
    /\ notified.payload = <<"\"", "h", "i", "\"">>
    /\ notified.onData = <<[type |-> "string", text |-> <<"h", "i">>]>>

\* C25: Pool.shutdown() has called queryModule.shutdown(),
\* transactionModule.shutdown() and disconnect(), in this order, whenever it
\* has ended, also when an earlier step failed
C25_PoolShutdownRunsAllSteps ==
    poolpc \in {"returned", "threw"} =>
        poolRan = <<"queryModule", "transactionModule", "disconnect">>

\* C26 (L3): a shutdown() of the Client facade called after an earlier one
\* returns at once and changes nothing, and a disconnect() called on a
\* supervisor after an earlier one destroys no handle, creates none and
\* leaves the supervisor shut down with its gate closed as it was
C26_SecondShutdownChangesNothing ==
    [][/\ \A c \in Shutdowns :
            (clientpc[c] = "idle" /\ clientpc'[c] # "idle" /\ clientShuttingDown) =>
                /\ clientpc'[c] = "returned"
                /\ UNCHANGED <<gateVars, supVars, clientShuttingDown, shutdownErrors>>
       /\ (\E throws \in BOOLEAN : DisconnectAgain(throws)) =>
            /\ UNCHANGED <<_handle, hstate, _isOpen, _isShuttingDown>>
            /\ _isShuttingDown /\ ~_isOpen]_vars

\* the transient set of the interface section: classes 08, 25, 40, 53, 55P03,
\* 57 and the eight codes of the operating system and the network
TransientSet ==
    {"08000", "08001", "08003", "08004", "08006", "08007", "08P01"}
        \cup {"25000", "25001", "25P01", "25P02"}
        \cup {"40000", "40001", "40002", "40003", "40P01"}
        \cup {"53000", "53100", "53200", "53300", "53400"}
        \cup {"55P03"}
        \cup {"57000", "57014", "57P01", "57P02", "57P03", "57P04", "57P05"}
        \cup {"ECONNRESET", "ECONNREFUSED", "ECONNABORTED", "ETIMEDOUT", "EPIPE",
              "EHOSTUNREACH", "ENETUNREACH", "EAI_AGAIN"}

\* C27: isRetriableError(err) returns true exactly when err is an object
\* whose `code` is a string with its upper-case form in the transient set
C27_RetriableIffTransientCode ==
    retriable.called =>
        (retriable.ret <=>
            /\ retriable.err.type = "object"
            /\ retriable.err.codeType = "string"
            /\ toUpperCase(retriable.err.code) \in TransientSet)

\* the schedules of the backoff section: base * attempt and base * 2^(attempt-1)
Schedule(build, n) == IF build = "src" THEN n ELSE 2 ^ (n - 1)

\* C28 (B2): the delay waitWithBackoff() sleeps is at least
\* min(base * f(attempt), maxDelayMs) and at most maxDelayMs + maxJitterMs, and
\* the part of it that is no jitter does not decrease with the attempt
C28_BackoffBounds ==
    slept.called =>
        /\ slept.delay >= Min(BaseMs * Schedule(slept.build, slept.attempt),
                              slept.maxDelayMs)
        /\ slept.delay <= slept.maxDelayMs + slept.maxJitterMs
        /\ \A n \in 1 .. slept.attempt :
               backoffOf(slept.build, n, slept.maxDelayMs) <= slept.backoff

\* a late attempt whose backoff is capped slept the cap and some jitter
C28_Witness ==
    /\ slept.called
    /\ slept.attempt > 1
    /\ slept.backoff = slept.maxDelayMs
    /\ slept.delay > slept.maxDelayMs

\* C29: a subscriber that throws does not stop the supervisor: disconnect()
\* does not throw and has closed the gate when it has emitted `disconnect`,
\* and the reconnect loop has reset _isReconnecting when it has opened the
\* gate and emitted `reconnect`
C29_EmitNeverThrows ==
    [][/\ (dpc = "idle" /\ dpc' # "idle") => (dpc' # "threw" /\ ~_isOpen')
       /\ (lastEvent # "reconnect" /\ lastEvent' = "reconnect") =>
              ~_isReconnecting']_vars

\* C30: testConnection() ends with the timeout error when the timer wins the
\* race, with the probe-failure error when the driver answers without rows,
\* with the driver's error when the query fails, and successfully otherwise;
\* when it has ended, clearTimeout was called and the timer is not pending
C30_ProbeOutcomesAndTimerCancelled ==
    test.pc = "done" =>
        /\ test.cleared /\ test.timer # "pending"
        /\ test.outcome =
               CASE test.winner = "timer" -> "timeout"
                 [] test.answer.kind \in {"error", "throws"} -> "driverError"
                 [] test.answer.kind = "rows" /\ test.answer.rows > 0 -> "ok"
                 [] OTHER -> "probeFailed"
        /\ test.winner = "timer" => test.clock * TickMs >= testTimeoutMs

\* the driver answered in time with an empty row set: the probe failed and
\* the timer was cancelled before it was due
C30_Witness ==
    /\ test.pc = "done"
    /\ test.answer.kind = "rows" /\ test.answer.rows = 0
    /\ test.outcome = "probeFailed"
    /\ test.timer = "cancelled"
    /\ test.clock > 0

(***************************************************************************)
(* NotificationClient.shutdown()                                           *)
(***************************************************************************)
\* a shutdown() call of NotificationClient has returned
ShutdownReturned == \E s \in Shutdowns : notifShutdowns[s].pc = "returned"

\* C31: once a shutdown() call of NotificationClient has returned, the
\* subscription map is empty and no step puts a mapping into it: a listen()
\* called afterwards settles at once with the shutting-down error, and a
\* listen() that was in flight inserts nothing when it resumes.
C31_MapEmptyAfterShutdown ==
    /\ [](ShutdownReturned => \A c \in Channels : channels[c] = 0)
    /\ [][ShutdownReturned =>
            /\ \A c \in Channels : channels'[c] = 0
            /\ \A l \in Listens :
                    lpc[l] = "idle" /\ lpc'[l] # "idle" =>
                        /\ lpc'[l] = "done"
                        /\ lresult'[l] = ErrClientShuttingDown]_vars

(***************************************************************************)
(* Client facade: transactions on the one connection                       *)
(***************************************************************************)
\* the attempt of call r is inside its transaction: BEGIN succeeded, a
\* statement of the batch is awaited, COMMIT or ROLLBACK is still to be issued
InsideTransaction(r) == inTransaction[r] /\ xpc[r] = "statement"

\* C32: on a Client facade (one shared handle, no release()), while the
\* attempt of one transaction() call is between its BEGIN and its
\* COMMIT/ROLLBACK, no other call passes a statement to client.query() of
\* that handle.
C32_TransactionNotInterleaved ==
    [][\A r, q \in Requests :
            r # q /\ InsideTransaction(r) /\ xpc'[r] = xpc[r] =>
                Len(issued'[q]) <= Len(issued[q])]_vars

(***************************************************************************)
(* Supervisor: probes, triggers and startup                                *)
(***************************************************************************)
\* handle h was replaced by a successful reconnect: the supervisor holds
\* another handle, the loop has ended with `reconnect` and the gate is open
Replaced(h) ==
    /\ _handle # 0
    /\ h # _handle
    /\ ~_isReconnecting
    /\ ~_isShuttingDown
    /\ lastEvent = "reconnect"
    /\ _isOpen

\* C33: when a probe that verifyOrReconnect() started on handle h reports
\* failure after h was replaced by a successful reconnect, the gate is not
\* closed and the replacement handle is not destroyed.
C33_StaleProbeIgnored ==
    [][\A h \in Handles :
            (/\ h \in vprobes
             /\ Replaced(h)
             /\ \E more \in BOOLEAN : VerifyProbeDone(h, FALSE, more))
            => /\ _isOpen'
               /\ _handle' = _handle
               /\ hstate'[_handle] = hstate[_handle]]_vars

\* a reconnect loop is active: reconnect() got past its guard and has not
\* returned
LoopActive == rpc # "idle"

\* a trigger arrives: the handle emits `error` or `end`, or a probe started
\* by verifyOrReconnect() settles
Trigger ==
    \E h \in Handles :
        \/ HandleError(h)
        \/ HandleEnd(h)
        \/ \E ok, more \in BOOLEAN : VerifyProbeDone(h, ok, more)

\* driver handles that were created and whose end() has not settled
HandlesHeld == {h \in Handles : hstate[h] \notin {"free", "ended"}}

\* C34: single-flight reconnect.  The guard of reconnect() sees every active
\* loop (_isReconnecting is set as long as one is active); a trigger that
\* arrives while a loop is active leaves the loop where it is, starts no
\* other, and neither destroys nor creates a handle; and the supervisor never
\* holds more than one driver handle at once.
C34_SingleFlightReconnect ==
    /\ [](LoopActive => _isReconnecting)
    /\ [](Cardinality(HandlesHeld) <= 1)
    /\ [][LoopActive /\ Trigger =>
            /\ rpc' = rpc
            /\ rprobe' = rprobe
            /\ _handle' = _handle
            /\ _isReconnecting' = _isReconnecting
            /\ _isDestroying' = _isDestroying
            /\ HandlesHeld' = HandlesHeld
            /\ \A h \in Handles : hstate'[h] = "ending" <=> hstate[h] = "ending"
            /\ _isOpen' = _isOpen
            /\ lastEvent' = lastEvent]_vars

\* an `end` event has arrived while a reconnect loop was active: the handle
\* the loop created, with its listeners attached, is dead, and the loop goes on
C34_Witness ==
    /\ LoopActive
    /\ _isReconnecting
    /\ _handle # 0
    /\ hlisten[_handle]
    /\ hstate[_handle] = "dead"
    /\ Cardinality(HandlesHeld) = 1

\* initialize() throws in this step: createPool()/createClient() or the probe
\* failed
InitializeFails == ipc # "failed" /\ ipc' = "failed"

\* the error of initialize() is rethrown to the host in this step
Rethrown == ~crashed /\ crashed'

\* C36: when the create+probe of initialize() fails, the error reaches the
\* host as an unhandled error, neither the failing step nor the rethrow opens
\* the gate, starts a reconnect loop or emits an event, and initialize()
\* never completes afterwards.
C36_StartupFailureIsFatal ==
    /\ [](crashed => ipc = "failed")
    /\ (ipc = "failed" ~> crashed)
    /\ [][InitializeFails \/ Rethrown =>
            /\ _isOpen' = _isOpen
            /\ opens' = opens
            /\ rpc' = rpc
            /\ _isReconnecting' = _isReconnecting
            /\ _handle' = _handle
            /\ lastEvent' = lastEvent]_vars
    /\ [][ipc = "failed" => ipc' = "failed"]_vars

\* the startup failed and was rethrown: the gate was never opened, no
\* reconnect loop runs and no event was emitted
C36_Witness ==
    /\ crashed
    /\ ~_isOpen
    /\ opens = 0
    /\ rpc = "idle"
    /\ ~_isReconnecting
    /\ lastEvent = "none"

\* a probe started by verifyOrReconnect() succeeds in this step
ProbeSucceeds == \E h \in Handles, more \in BOOLEAN : VerifyProbeDone(h, TRUE, more)

\* a reconnect loop starts in this step
LoopStarts == ~_isReconnecting /\ _isReconnecting'

\* C37: verifyOrReconnect() after an `error` event.  A probe that succeeds
\* leaves the supervisor as it is: the gate and its waiters are untouched
\* (an open gate is not opened again), the handle is neither replaced nor
\* ended, no reconnect loop starts and no event is emitted; and the `error`
\* listener itself starts a reconnect only when there is no handle.
C37_ProbeSuccessChangesNothing ==
    /\ [][ProbeSucceeds =>
            /\ UNCHANGED <<_isOpen, _waiters, _pendingPromise, promises, tickets>>
            /\ opens' = opens
            /\ _handle' = _handle
            /\ _handle # 0 => hstate'[_handle] = hstate[_handle]
            /\ rpc' = rpc
            /\ _isReconnecting' = _isReconnecting
            /\ _isDestroying' = _isDestroying
            /\ lastEvent' = lastEvent]_vars
    /\ [][(\E h \in Handles : HandleError(h)) /\ LoopStarts => _handle = 0]_vars

\* the supervisor is Ready and a probe of its handle, started after an
\* `error` event, is in flight and can succeed
C37_Witness ==
    /\ _isOpen
    /\ opens = 1
    /\ ~_isReconnecting
    /\ ~_isShuttingDown
    /\ _handle # 0
    /\ _handle \in vprobes
    /\ Answers(_handle)
    /\ lastEvent \in {"connect", "reconnect"}

(***************************************************************************)
(* Pool facade: admission during shutdown()                                *)
(***************************************************************************)
\* C35: once Pool.shutdown() has been invoked, the facade admits nothing: a
\* query() call settles in its first step with the shutting-down error and
\* no transaction() call is counted in, also while queryModule.shutdown() is
\* still waiting for its requests.
C35_ShutdownAdmitsNothing ==
    [][poolpc # "idle" =>
            /\ \A r \in Requests :
                    xpc[r] = "idle" /\ xpc'[r] # "idle" =>
                        /\ xpc'[r] = "done"
                        /\ outcome'[r].kind = "error"
                        /\ outcome'[r].err = ErrModuleShuttingDown
            /\ transactionModule'.activeRequests
                    <= transactionModule.activeRequests]_vars

(***************************************************************************)
(* NotificationClient: a listen() that fails                               *)
(***************************************************************************)
\* listen() call l, past its synchronous part, settles with an error in this
\* step: getClient() or LISTEN rejected, or events.onConnect() threw
ListenFails(l) ==
    /\ lpc[l] \in {"getClient", "LISTEN"}
    /\ lpc'[l] = "done"
    /\ lresult'[l] # "ok"

\* listen() call l is made in this step, on a channel without mapping and on
\* a client that is not shutting down
ListenOnFreeChannel(l) ==
    /\ lpc[l] = "idle"
    /\ lpc'[l] # "idle"
    /\ ~notifShuttingDown
    /\ channels[lchannel'[l]] = 0

\* C38: a listen(c, cb) that fails after its synchronous part rethrows the
\* error it caught and leaves no mapping for c, the mappings of the other
\* channels being untouched; and a listen(c, .) on a channel without mapping
\* is accepted: it inserts its mapping and goes on to getClient().
C38_FailedListenLeavesNoMapping ==
    /\ [][\A l \in Listens :
            ListenFails(l) =>
                /\ lresult'[l] = ErrDriver
                /\ channels'[lchannel[l]] = 0
                /\ \A c \in Channels \ {lchannel[l]} : channels'[c] = channels[c]]_vars
    /\ [][\A l \in Listens :
            ListenOnFreeChannel(l) =>
                /\ lpc'[l] = "getClient"
                /\ channels'[lchannel'[l]] = l]_vars
    /\ [](\A l \in Listens :
            lpc[l] = "done" /\ lresult[l] = ErrDriver => channels[lchannel[l]] # l)

\* a listen() failed and a later listen() on the same channel was accepted
\* and holds the mapping
C38_Witness ==
    \E l, k \in Listens :
        /\ l < k
        /\ lpc[l] = "done"
        /\ lresult[l] = ErrDriver
        /\ lchannel[k] = lchannel[l]
        /\ lpc[k] \in {"getClient", "LISTEN"}
        /\ channels[lchannel[l]] = k

\* C39: handleNotification() calls no callback for a notification whose
\* payload is absent or whose channel has no mapping; and when onData throws,
\* the exception goes to onError of the subscription mapped to the
\* notification's channel, once, and to no other subscription; onError is
\* not called otherwise.
C39_DropsAndRoutesToOwnOnError ==
    /\ (~notified.defined \/ notified.payload = << >> \/ notified.events = 0) =>
            /\ notified.onData = << >>
            /\ notified.onError = 0
            /\ notified.onErrorOf = {}
    /\ notified.threw =>
            /\ notified.events # 0
            /\ Len(notified.onData) = 1
            /\ notified.onError = 1
            /\ notified.onErrorOf = {notified.events}
    /\ ~notified.threw => notified.onError = 0 /\ notified.onErrorOf = {}

\* onData threw for a notification on a channel while the other channel is
\* mapped too: onError of the notification's subscription was called, and
\* only that
C39_Witness ==
    /\ notified.threw
    /\ notified.events # 0
    /\ notified.onErrorOf = {notified.events}
    /\ \E c \in Channels :
            /\ c # notified.channel
            /\ channels[c] # 0
            /\ channels[c] # notified.events

(***************************************************************************)
(* NotificationClient: listen() and handleReconnect() on one connection    *)
(***************************************************************************)
\* listen() call l was parked at the gate during the reconnect of
\* handleReconnect() call k: it was awaiting getClient() when the `reconnect`
\* event was emitted, so its LISTEN goes to the connection that the
\* reconnect established
ParkedDuring(k, l) == hpc[k] # "idle" /\ l \in hwaiting[k]

\* C40: onConnect of a subscription is called at most once per established
\* connection: when a listen() call that was parked at the gate during a
\* reconnect subscribes and calls onConnect, the handleReconnect() run of
\* that reconnect does not call onConnect of the same subscription too.
C40_OnConnectOncePerConnection ==
    \A k \in Reconnects, l \in Listens :
        ParkedDuring(k, l) /\ l \in hconnected[k] => lresult[l] # "ok"

====
